---- MODULE Spec2Model ----
(***************************************************************************)
(* State-machine model of the loom-clone recording front end:              *)
(* RecordingSessionService (recording-session.service.ts), the parts of    *)
(* MediaDevicesService (media-devices.service.ts) and FolderStorageService *)
(* (folder-storage.service.ts) it coordinates with, and the browser        *)
(* platform objects (MediaStream, MediaStreamTrack, MediaRecorder) those   *)
(* services drive.                                                         *)
(*                                                                         *)
(* Every async method is cut at its awaits: one action runs the code from  *)
(* the call (or from the settlement of the awaited promise) up to the next *)
(* await or the return, as the single-threaded event loop does.            *)
(***************************************************************************)
EXTENDS Integers, Sequences, FiniteSets, TLC

(***************************************************************************)
(* Bounds of the model.                                                    *)
(***************************************************************************)
MaxStreams == 2
MaxChunks == 1
MaxDevices == 1
MaxPlays == 2
MaxUrls == 3

(***************************************************************************)
(* Null values, one per type so that values stay comparable.               *)
(***************************************************************************)
NoStream == 0
NullMsg == "<null>"
NullKey == <<>>
NullTrack == <<>>
Free == [kind |-> "free", video |-> "none", audio |-> "none",
         videoEnabled |-> TRUE, audioEnabled |-> TRUE]
NullRecordingStream == [present |-> FALSE, tracks |-> {}]
NoUrl == 0
NoRecording == "<none>"
NoPlay == [at |-> "none", recording |-> NoRecording]
NoRecorder == [state |-> "null", onerror |-> "unset", emitted |-> 0,
               nonEmpty |-> <<>>]
NoIntent == [captureScreen |-> FALSE, captureCamera |-> FALSE,
             captureMicrophone |-> FALSE]
NoConstraints == [video |-> <<"false">>, audio |-> <<"false">>]

StreamIds == 1..MaxStreams

(***************************************************************************)
(* Messages of the recording session.                                      *)
(***************************************************************************)
MsgNoSource == "Enable screen sharing, camera, or microphone first"
MsgVideoUnavailable == "Video track is unavailable for recording"
MsgCanceled == "Screen sharing selection was canceled"
MsgRecordingFailed == "Recording failed unexpectedly"
MsgRecorderStopFailed == "Recorder failed while stopping"
MsgSaveFailed == "Failed to save recording to folder"
MsgNoFolder == "No folder selected"
MsgNoPermission == "Permission not granted"
MsgPlatform == "<message of the platform error>"

VARIABLES
  \* ---- RecordingSessionService ----
  recordingStatus,        \* _recordingStatus
  errorMessage,           \* _errorMessage
  statusMessage,          \* _statusMessage
  screenStream,           \* stream id or NoStream
  deviceStream,           \* stream id or NoStream
  recordingStream,        \* [present, tracks]: the composed MediaStream
  mediaRecorder,          \* the MediaRecorder object or NoRecorder
  chunks,                 \* sequence of the collected chunk ids
  pc,                     \* await at which the running start/stop is suspended
  intent,                 \* captureScreen/captureCamera/captureMicrophone locals
  pendingConstraints,     \* constraints of the getUserMedia call in flight
  \* ---- MediaDevicesService ----
  availableCameras,
  availableMicrophones,
  selectedCameraKey,
  selectedMicrophoneKey,
  microphoneEnabled,
  cameraEnabled,
  screenSharingEnabled,
  activeMicrophoneTrack,
  activeCameraTrack,
  permissionState,
  mediaErrorMessage,
  inFlight,               \* the registry's async methods awaiting a promise
  \* ---- FolderStorageService ----
  folderHandle,
  folderPermissionState,
  recordings,             \* _recordings
  recordingsLoading,      \* _recordingsLoading
  recordingsError,        \* _recordingsError
  folderPending,          \* the file operations of the service in flight
  folderEntries,          \* platform: the entries of the folder, as iterated
  \* ---- IndexedDbService ----
  kvStore,                \* per existing object store, the value it holds
  dbPromise,              \* the cached open: "null", "resolved" or "rejected"
  \* ---- HomeComponent: playback ----
  activePlaybackObjectUrl, \* the object URL the view holds, or NoUrl
  playbackUrl,            \* _playbackUrl
  selectedRecording,      \* _selectedRecording: a file name or NoRecording
  playbackError,          \* _playbackError
  playbackLoading,        \* _playbackLoading
  plays,                  \* per call slot, the await an onPlayRecording is at
  destroyed,              \* ngOnDestroy has run
  objectUrls,             \* platform: the object URLs created and not revoked
  urlsCreated,            \* platform: how many object URLs were created
  \* ---- platform ----
  streams,                \* the MediaStreams obtained from the platform
  \* ---- observation ----
  lastOp,                 \* the handler that ran in the last step
  calls,                  \* the platform/collaborator calls it made
  statusWrites,           \* the values it wrote to _recordingStatus, in order
  acquired,               \* streams acquired by the latest startRecording
  saved,                  \* the arguments of the saveRecording call it made
  lastArg,                \* the argument of the observed registry method
  previousSession,        \* the keys selected when the page was last reloaded
  observe                 \* the component whose handlers lastOp names

sessionVars == <<recordingStatus, errorMessage, statusMessage, screenStream,
                 deviceStream, recordingStream, mediaRecorder, chunks, pc,
                 intent, pendingConstraints>>
selectionVars == <<availableCameras, availableMicrophones, selectedCameraKey,
                   selectedMicrophoneKey, microphoneEnabled, cameraEnabled,
                   screenSharingEnabled, permissionState, mediaErrorMessage>>
attachVars == <<activeMicrophoneTrack, activeCameraTrack>>
folderVars == <<folderHandle, folderPermissionState>>
asyncVars == <<inFlight, kvStore>>
playbackVars == <<activePlaybackObjectUrl, playbackUrl, selectedRecording,
                  playbackError, playbackLoading, plays, destroyed,
                  objectUrls, urlsCreated>>
listingVars == <<recordings, recordingsLoading, recordingsError,
                 folderPending, folderEntries>>
obsVars == <<lastOp, calls, statusWrites, acquired, saved, lastArg,
             previousSession>>
vars == <<sessionVars, selectionVars, attachVars, folderVars, asyncVars,
          dbPromise, playbackVars, listingVars, streams, obsVars, observe>>

(***************************************************************************)
(* Platform: MediaStream and MediaStreamTrack.  A stream is a record in    *)
(* the heap `streams`; a track is <<stream id, "video"|"audio">>.          *)
(***************************************************************************)
TrackKinds == {"video", "audio"}

TracksOf(h, id) ==
  IF id = NoStream THEN {}
  ELSE {<<id, k>> : k \in {kk \in TrackKinds : h[id][kk] # "none"}}

VideoTrack(h, id) ==
  IF id # NoStream /\ h[id].video # "none" THEN <<id, "video">> ELSE NullTrack

AudioTrack(h, id) ==
  IF id # NoStream /\ h[id].audio # "none" THEN <<id, "audio">> ELSE NullTrack

IsLive(h, t) == t # NullTrack /\ h[t[1]][t[2]] = "live"

LiveTracks(h) ==
  {t \in StreamIds \X TrackKinds : h[t[1]][t[2]] = "live"}

\* MediaStreamTrack.stop() on every track of ts
StopAll(h, ts) ==
  [i \in StreamIds |->
     [h[i] EXCEPT !.video = IF <<i, "video">> \in ts /\ @ # "none"
                            THEN "ended" ELSE @,
                  !.audio = IF <<i, "audio">> \in ts /\ @ # "none"
                            THEN "ended" ELSE @]]

\* track.enabled = value
SetEnabled(h, t, value) ==
  IF t[2] = "video" THEN [h EXCEPT ![t[1]].videoEnabled = value]
  ELSE [h EXCEPT ![t[1]].audioEnabled = value]

TrackEnabled(h, t) ==
  IF t[2] = "video" THEN h[t[1]].videoEnabled ELSE h[t[1]].audioEnabled

FreeIds(h) == {i \in StreamIds : h[i].kind = "free"}

NewId(h) == CHOOSE i \in FreeIds(h) : \A j \in FreeIds(h) : i <= j

\* The platform's garbage collector: a stream nothing refers to and none of
\* whose tracks is live leaves the heap.
Norm(h, roots) ==
  [i \in StreamIds |->
     IF i \notin roots /\ h[i].video # "live" /\ h[i].audio # "live"
     THEN Free ELSE h[i]]

NewStream(kind, hasVideo, hasAudio) ==
  [kind |-> kind,
   video |-> IF hasVideo THEN "live" ELSE "none",
   audio |-> IF hasAudio THEN "live" ELSE "none",
   videoEnabled |-> TRUE, audioEnabled |-> TRUE]

Roots ==
  ({screenStream, deviceStream} \ {NoStream})
    \cup {t[1] : t \in recordingStream.tracks}
    \cup {t[1] : t \in {activeMicrophoneTrack, activeCameraTrack} \ {NullTrack}}
    \cup acquired

(***************************************************************************)
(* MediaDevicesService: computed signals.                                  *)
(***************************************************************************)
NoDevice == [selectionKey |-> NullKey, deviceId |-> "", label |-> "",
             kind |-> "none", groupId |-> ""]

\* String.prototype.trim on the ids and labels of the model
Trim(s) == IF s = " " THEN "" ELSE s

\* Array.prototype.find by selectionKey, `|| null`
FindDevice(devices, key) ==
  IF \E i \in 1..Len(devices) : devices[i].selectionKey = key
  THEN devices[CHOOSE i \in 1..Len(devices) :
                 /\ devices[i].selectionKey = key
                 /\ \A j \in 1..(i - 1) : devices[j].selectionKey # key]
  ELSE NoDevice

selectedCamera == FindDevice(availableCameras, selectedCameraKey)

selectedMicrophone == FindDevice(availableMicrophones, selectedMicrophoneKey)

hasEnabledInput ==
  \/ microphoneEnabled /\ selectedMicrophoneKey # NullKey
  \/ cameraEnabled /\ selectedCameraKey # NullKey

(***************************************************************************)
(* Assignment shorthands: every action gives every variable its value.     *)
(***************************************************************************)
Session(st, em, sm, scr, dev, rs, mr, ch, p, it, mc) ==
  /\ recordingStatus' = st
  /\ errorMessage' = em
  /\ statusMessage' = sm
  /\ screenStream' = scr
  /\ deviceStream' = dev
  /\ recordingStream' = rs
  /\ mediaRecorder' = mr
  /\ chunks' = ch
  /\ pc' = p
  /\ intent' = it
  /\ pendingConstraints' = mc

\* Date.toISOString() as the pieces between its ':' and '.' separators
Timestamps ==
  {<<"2026-11-02T09", ":", "30", ":", "00", ".", "000Z">>,
   <<"2026-11-02T09", ":", "30", ":", "01", ".", "250Z">>}

\* String.prototype.replace(/[:.]/g, '-')
ReplaceSeparators(iso) ==
  [i \in 1..Len(iso) |-> IF iso[i] \in {":", "."} THEN "-" ELSE iso[i]]

createFilename(now) == <<"recording-">> \o ReplaceSeparators(now) \o <<".webm">>

NoSave == [blob |-> <<>>, filename |-> <<>>]

NoArg == <<>>

\* what the step's handler did; the only saveRecording call is
\* saveRecording(finalBlob, this.createFilename()) of stopRecording
HandlerMarks(op, arg, cs, sw, acq) ==
  /\ lastOp' = op
  /\ lastArg' = arg
  /\ calls' = cs
  /\ statusWrites' = sw
  /\ acquired' = acq
  /\ observe' = observe
  /\ \E now \in Timestamps :
       saved' = IF "saveRecording" \in cs
                THEN [blob |-> chunks, filename |-> createFilename(now)]
                ELSE NoSave

\* a handler: the page is not reloaded
GhostOf(op, arg, cs, sw, acq) ==
  /\ HandlerMarks(op, arg, cs, sw, acq)
  /\ UNCHANGED previousSession

\* a handler of one of the services: the page's playback is not involved,
\* the listing of the folder is followed on its own (FolderSpec), and the
\* database stays as it was opened
Ghost(op, cs, sw, acq) ==
  /\ GhostOf(op, NoArg, cs, sw, acq)
  /\ UNCHANGED <<playbackVars, listingVars, dbPromise>>

\* a handler outside the registry's async methods and the key-value store
Observed(op, cs, sw, acq) ==
  /\ Ghost(op, cs, sw, acq)
  /\ UNCHANGED asyncVars

\* the streams of the latest startRecording are remembered until the step
\* after it returned
Kept == IF pc \in {"awaitDisplayMedia", "awaitUserMedia"} THEN acquired ELSE {}

\* the handlers of a component are named one by one only where that
\* component is the one observed
Tag(component, op) == IF observe = component THEN op ELSE component

\* the attachment held by the registry and the heap, collected
Platform(h, mic, cam) ==
  /\ activeMicrophoneTrack' = mic
  /\ activeCameraTrack' = cam
  /\ streams' = Norm(h, Roots')

(***************************************************************************)
(* MediaDevicesService.applyDesiredStateToActiveTracks, attachActiveTracks *)
(***************************************************************************)
ApplyToTrack(h, t, value) ==
  IF t # NullTrack /\ IsLive(h, t) THEN SetEnabled(h, t, value) ELSE h

applyDesiredStateToActiveTracks(h, mic, cam, micOn, camOn) ==
  ApplyToTrack(ApplyToTrack(h, mic, micOn), cam, camOn)

(***************************************************************************)
(* RecordingSessionService: private helpers.                               *)
(***************************************************************************)
ConstraintFor(include, device) ==
  IF include /\ device # NoDevice
  THEN IF Trim(device.deviceId) # "" THEN <<"exact", Trim(device.deviceId)>>
       ELSE <<"true">>
  ELSE <<"false">>

buildDeviceConstraints(includeCamera, includeMicrophone) ==
  [video |-> ConstraintFor(includeCamera, selectedCamera),
   audio |-> ConstraintFor(includeMicrophone, selectedMicrophone)]

\* the tracks cleanupSession stops: those of the composed stream, of the
\* device stream and of the screen stream
CleanupTracks(h, rs, dev, scr) ==
  rs.tracks \cup TracksOf(h, dev) \cup TracksOf(h, scr)

\* a teardown that stops the device stream's tracks and keeps the reference
cleanupKeepingDeviceStream(h, rs, dev, scr) ==
  [heap |-> StopAll(h, CleanupTracks(h, rs, dev, scr)),
   screenStream |-> NoStream, deviceStream |-> dev,
   recordingStream |-> NullRecordingStream,
   mediaRecorder |-> NoRecorder, chunks |-> <<>>,
   mic |-> NullTrack, cam |-> NullTrack]

\* cleanupSession: the session ends owning nothing
cleanupSession(h, rs, dev, scr) ==
  [heap |-> StopAll(h, CleanupTracks(h, rs, dev, scr)),
   screenStream |-> NoStream, deviceStream |-> NoStream,
   recordingStream |-> NullRecordingStream,
   mediaRecorder |-> NoRecorder, chunks |-> <<>>,
   mic |-> NullTrack, cam |-> NullTrack]

\* the state a finished call leaves, from the result c of cleanupSession
Finished(st, em, sm, c, op, cs, sw, acq) ==
  /\ Session(st, em, sm, c.screenStream, c.deviceStream, c.recordingStream,
             c.mediaRecorder, c.chunks, "none", NoIntent, NoConstraints)
  /\ Observed(op, cs, sw, acq)
  /\ Platform(c.heap, c.mic, c.cam)

\* a catch block that sets the error and releases nothing
StartCatchKeeping(h, rs, dev, scr, msg, op, cs, sw, acq) ==
  /\ Session("error", msg, NullMsg, scr, dev, rs, mediaRecorder, chunks,
             "none", NoIntent, NoConstraints)
  /\ Observed(op, cs, sw \o <<"error">>, acq)
  /\ Platform(h, activeMicrophoneTrack, activeCameraTrack)

\* startRecording's catch block
StartCatch(h, rs, dev, scr, msg, op, cs, sw, acq) ==
  Finished("error", msg, NullMsg, cleanupSession(h, rs, dev, scr),
           op, cs, sw \o <<"error">>, acq)

\* the intent startRecording computes
CaptureScreen == screenSharingEnabled

\* a camera intent that ignores screen sharing
CaptureCameraWithScreen == cameraEnabled /\ selectedCamera # NoDevice

CaptureCamera ==
  ~screenSharingEnabled /\ cameraEnabled /\ selectedCamera # NoDevice

\* a microphone intent that does not ask for a selected device
CaptureMicrophoneUnselected == microphoneEnabled

CaptureMicrophone == microphoneEnabled /\ selectedMicrophone # NoDevice

\* a guard that lets a start through from error as well
StartGuardLax == recordingStatus \in {"idle", "error"}

StartGuard == recordingStatus = "idle"

\* new MediaRecorder(...) and start(1000): both may throw
RecorderOutcomes == {"started", "constructorThrows", "startThrows"}

\* startRecording from `microphoneTrack = ...` to its end
StartFinish(op, h, rs, dev, scr, it, em, sm, cs, sw, acq) ==
  LET screenVideoTrack == VideoTrack(h, scr)
      microphoneTrack == AudioTrack(h, dev)
      cameraTrack == VideoTrack(h, dev)
      rs1 == IF screenVideoTrack = NullTrack /\ cameraTrack # NullTrack
             THEN [rs EXCEPT !.tracks = @ \cup {cameraTrack}] ELSE rs
      rs2 == IF microphoneTrack # NullTrack
             THEN [rs1 EXCEPT !.tracks = @ \cup {microphoneTrack}] ELSE rs1
      h1 == applyDesiredStateToActiveTracks(h, microphoneTrack, cameraTrack,
                                            microphoneEnabled, cameraEnabled)
  IN IF /\ screenVideoTrack = NullTrack
        /\ cameraTrack = NullTrack
        /\ (it.captureScreen \/ it.captureCamera)
     THEN StartCatch(h, rs1, dev, scr, MsgVideoUnavailable, op, cs, sw, acq)
     ELSE \E outcome \in RecorderOutcomes :
            IF outcome = "started"
            THEN /\ Session("recording", em, sm, scr, dev, rs2,
                            [state |-> "recording", onerror |-> "session",
                             emitted |-> 0, nonEmpty |-> <<>>],
                            <<>>, "none", NoIntent, NoConstraints)
                 /\ Observed(op, cs \cup {"MediaRecorder"},
                             sw \o <<"recording">>, acq)
                 /\ Platform(h1, microphoneTrack, cameraTrack)
            ELSE StartCatch(h1, rs2, dev, scr, MsgPlatform, op,
                            cs \cup {"MediaRecorder"}, sw, acq)

\* startRecording from `this.recordingStream = new MediaStream()` on
StartCompose(op, h, scr, it, em, sm, cs, sw, acq) ==
  LET screenVideoTrack == VideoTrack(h, scr)
      rs == [present |-> TRUE,
             tracks |-> {screenVideoTrack} \ {NullTrack}]
      mediaConstraints ==
        buildDeviceConstraints(it.captureCamera, it.captureMicrophone)
  IN IF mediaConstraints.video # <<"false">>
          \/ mediaConstraints.audio # <<"false">>
     THEN /\ Session("starting", em, sm, scr, deviceStream, rs,
                     mediaRecorder, chunks, "awaitUserMedia", it,
                     mediaConstraints)
          /\ Observed(op, cs \cup {"getUserMedia"}, sw, acq)
          /\ Platform(h, activeMicrophoneTrack, activeCameraTrack)
     ELSE StartFinish(op, h, rs, deviceStream, scr, it, em, sm, cs, sw, acq)

(***************************************************************************)
(* RecordingSessionService.startRecording                                  *)
(***************************************************************************)
StartRecording ==
  IF ~StartGuard
  THEN /\ UNCHANGED <<sessionVars, selectionVars, attachVars, folderVars,
                      streams>>
       /\ Observed("startRecording", {}, <<>>, Kept)
  ELSE LET it == [captureScreen |-> CaptureScreen,
                  captureCamera |-> CaptureCamera,
                  captureMicrophone |-> CaptureMicrophone]
       IN /\ UNCHANGED <<selectionVars, folderVars>>
          /\ IF ~it.captureScreen /\ ~it.captureCamera
                  /\ ~it.captureMicrophone
             THEN StartCatch(streams, recordingStream, deviceStream,
                             screenStream, MsgNoSource, "startRecording",
                             {}, <<"starting">>, {})
             ELSE IF it.captureScreen
             THEN /\ Session("starting", NullMsg, NullMsg, screenStream,
                             deviceStream, recordingStream, mediaRecorder,
                             chunks, "awaitDisplayMedia", it, NoConstraints)
                  /\ Observed("startRecording", {"getDisplayMedia"},
                              <<"starting">>, {})
                  /\ Platform(streams, activeMicrophoneTrack,
                              activeCameraTrack)
             ELSE StartCompose("startRecording", streams, screenStream, it,
                               NullMsg, NullMsg, {}, <<"starting">>, {})

(***************************************************************************)
(* startRecording resumed: navigator.mediaDevices.getDisplayMedia settles  *)
(***************************************************************************)
\* a stream of the source the user picked: { video: true, audio: false }
\* gives one video track and no audio track
DisplayMediaResolve ==
  /\ pc = "awaitDisplayMedia"
  /\ FreeIds(streams) # {}
  /\ UNCHANGED <<selectionVars, folderVars>>
  /\ LET id == NewId(streams)
         h == [streams EXCEPT ![id] = NewStream("screen", TRUE, FALSE)]
     IN StartCompose("getDisplayMedia resolved", h, id, intent,
                       errorMessage, statusMessage, {}, <<>>,
                       acquired \cup {id})

\* isScreenSelectionCanceled: a DOMException NotAllowedError or AbortError
DisplayMediaCancel ==
  /\ pc = "awaitDisplayMedia"
  /\ UNCHANGED <<selectionVars, folderVars>>
  /\ Session("idle", errorMessage, MsgCanceled, screenStream, deviceStream,
             recordingStream, mediaRecorder, chunks, "none", NoIntent,
             NoConstraints)
  /\ Observed("getDisplayMedia canceled", {}, <<"idle">>, Kept)
  /\ Platform(streams, activeMicrophoneTrack, activeCameraTrack)

\* any other rejection is rethrown to the outer catch
DisplayMediaReject ==
  /\ pc = "awaitDisplayMedia"
  /\ UNCHANGED <<selectionVars, folderVars>>
  /\ StartCatch(streams, recordingStream, deviceStream, screenStream,
                MsgPlatform, "getDisplayMedia rejected", {}, <<>>, Kept)

(***************************************************************************)
(* startRecording resumed: navigator.mediaDevices.getUserMedia settles     *)
(***************************************************************************)
UserMediaResolve ==
  /\ pc = "awaitUserMedia"
  /\ FreeIds(streams) # {}
  /\ UNCHANGED <<selectionVars, folderVars>>
  /\ LET id == NewId(streams)
         h == [streams EXCEPT ![id] =
                 NewStream("device", pendingConstraints.video # <<"false">>,
                           pendingConstraints.audio # <<"false">>)]
     IN StartFinish("getUserMedia resolved", h, recordingStream, id,
                    screenStream, intent, errorMessage, statusMessage, {},
                    <<>>, acquired \cup {id})

UserMediaReject ==
  /\ pc = "awaitUserMedia"
  /\ UNCHANGED <<selectionVars, folderVars>>
  /\ StartCatch(streams, recordingStream, deviceStream, screenStream,
                MsgPlatform, "getUserMedia rejected", {}, <<>>, Kept)

(***************************************************************************)
(* RecordingSessionService.stopRecording, stopRecorderAndCollectBlob       *)
(***************************************************************************)
\* a guard that looks at the recorder alone
StopGuardLax == mediaRecorder # NoRecorder

StopGuard == recordingStatus = "recording" /\ mediaRecorder # NoRecorder

\* stopRecording up to `await this.stopRecorderAndCollectBlob()`: the
\* recorder gets the stopping handlers and is told to stop
StopBegin(op, h) ==
  /\ Session("stopping", errorMessage, statusMessage, screenStream,
             deviceStream, recordingStream,
             [mediaRecorder EXCEPT !.state = "stopRequested",
                                   !.onerror = "stopping"],
             chunks, "awaitRecorder", intent, pendingConstraints)
  /\ Observed(op, {"MediaRecorder.stop"}, <<"stopping">>, Kept)
  /\ Platform(h, activeMicrophoneTrack, activeCameraTrack)

\* the early return of stopRecording
StopNoop(op, h) ==
  /\ UNCHANGED sessionVars
  /\ Observed(op, {}, <<>>, Kept)
  /\ Platform(h, activeMicrophoneTrack, activeCameraTrack)

\* a stopRecording without its guard
stopRecordingUnguarded(op, h) == StopBegin(op, h)

stopRecording(op, h) ==
  IF StopGuard THEN StopBegin(op, h) ELSE StopNoop(op, h)

StopRecording ==
  /\ UNCHANGED <<selectionVars, folderVars>>
  /\ stopRecording("stopRecording", streams)

\* stopRecording's catch and finally
StopCatch(msg, op, cs) ==
  Finished("error", msg, statusMessage,
           cleanupSession(streams, recordingStream, deviceStream,
                          screenStream),
           op, cs, <<"error">>, Kept)

\* a success end without the finally block
StopSucceedKeeping(op, cs) ==
  /\ Session("idle", NullMsg, statusMessage, screenStream, deviceStream,
             recordingStream, mediaRecorder, chunks, "none", NoIntent,
             NoConstraints)
  /\ Observed(op, cs, <<"idle">>, Kept)
  /\ Platform(streams, activeMicrophoneTrack, activeCameraTrack)

\* stopRecording's success end and finally
StopSucceed(op, cs) ==
  Finished("idle", NullMsg, statusMessage,
           cleanupSession(streams, recordingStream, deviceStream,
                          screenStream),
           op, cs, <<"idle">>, Kept)

\* FolderStorageService.saveRecording up to its first await: the outcome of
\* the two checks
SaveCheck ==
  IF folderHandle = "none" THEN MsgNoFolder
  ELSE IF folderPermissionState # "granted" THEN MsgNoPermission
  ELSE "ok"

\* FolderStorageService.refreshRecordings returns at once without a
\* granted folder
RefreshSkips == folderHandle = "none" \/ folderPermissionState # "granted"

\* a size test that lets every blob through
BlobAnySize(blob) == TRUE

\* new Blob(this.chunks).size > 0
BlobNonEmpty(blob) == Len(blob) > 0

\* the recorder's stop event: onstop resolves with the blob, stopRecording
\* resumes
RecorderStop ==
  /\ mediaRecorder.state = "stopRequested"
  /\ pc = "awaitRecorder"
  /\ UNCHANGED <<selectionVars, folderVars>>
  /\ LET finalBlob == chunks
     IN IF ~BlobNonEmpty(finalBlob)
        THEN StopSucceed("recorder stop", {})
        ELSE IF SaveCheck # "ok"
        THEN StopCatch(SaveCheck, "recorder stop", {"saveRecording"})
        ELSE /\ Session(recordingStatus, errorMessage, statusMessage,
                        screenStream, deviceStream, recordingStream,
                        [mediaRecorder EXCEPT !.state = "inactive"],
                        chunks, "awaitSave", intent, pendingConstraints)
             /\ Observed("recorder stop", {"saveRecording"}, <<>>, Kept)
             /\ Platform(streams, activeMicrophoneTrack, activeCameraTrack)

\* the write to the folder succeeded: refreshRecordings is called
SaveResolve ==
  /\ pc = "awaitSave"
  /\ UNCHANGED <<selectionVars, folderVars>>
  /\ IF RefreshSkips
     THEN StopSucceed("saveRecording resolved", {"refreshRecordings"})
     ELSE /\ Session(recordingStatus, errorMessage, statusMessage,
                     screenStream, deviceStream, recordingStream,
                     mediaRecorder, chunks, "awaitRefresh", intent,
                     pendingConstraints)
          /\ Observed("saveRecording resolved", {"refreshRecordings"}, <<>>,
                      Kept)
          /\ Platform(streams, activeMicrophoneTrack, activeCameraTrack)

\* getFileHandle, createWritable, write or close failed
SaveReject ==
  /\ pc = "awaitSave"
  /\ UNCHANGED <<selectionVars, folderVars>>
  /\ StopCatch(MsgSaveFailed, "saveRecording rejected", {})

\* refreshRecordings catches its own failures: it always resolves
RefreshSettle ==
  /\ pc = "awaitRefresh"
  /\ UNCHANGED <<selectionVars, folderVars>>
  /\ StopSucceed("refreshRecordings settled", {})

(***************************************************************************)
(* RecordingSessionService.clearError                                      *)
(***************************************************************************)
\* a clearError that resets the status whatever it is
ClearErrorStatusAlways == "idle"

ClearErrorStatus == IF recordingStatus = "error" THEN "idle" ELSE recordingStatus

\* a clearError that resets the status and leaves the messages
ClearErrorKeepingMessages ==
  /\ UNCHANGED <<selectionVars, folderVars>>
  /\ Session(ClearErrorStatus, errorMessage, statusMessage, screenStream,
             deviceStream, recordingStream, mediaRecorder, chunks, pc, intent,
             pendingConstraints)
  /\ Observed("clearError", {},
              IF ClearErrorStatus # recordingStatus
              THEN <<ClearErrorStatus>> ELSE <<>>,
              Kept)
  /\ Platform(streams, activeMicrophoneTrack, activeCameraTrack)

ClearError ==
  /\ UNCHANGED <<selectionVars, folderVars>>
  /\ Session(ClearErrorStatus, NullMsg, NullMsg, screenStream, deviceStream,
             recordingStream, mediaRecorder, chunks, pc, intent,
             pendingConstraints)
  /\ Observed("clearError", {},
              IF ClearErrorStatus # recordingStatus
              THEN <<ClearErrorStatus>> ELSE <<>>,
              Kept)
  /\ Platform(streams, activeMicrophoneTrack, activeCameraTrack)

(***************************************************************************)
(* Platform: MediaRecorder events.                                         *)
(***************************************************************************)
RecorderActive == mediaRecorder.state \in {"recording", "stopRequested"}

\* an ondataavailable that keeps every chunk
KeepEveryChunk(size) == TRUE

\* ondataavailable: a chunk is kept when its size is positive
KeepChunk(size) == size > 0

\* dataavailable with an empty (size 0) or a non-empty chunk; a chunk is
\* identified by its emission number, and the recorder remembers which of
\* its chunks were not empty
RecorderEmits(limit) ==
  /\ RecorderActive
  /\ mediaRecorder.emitted < limit
  /\ UNCHANGED <<selectionVars, folderVars>>
  /\ \E size \in {0, 1} :
       LET n == mediaRecorder.emitted + 1
       IN /\ Session(recordingStatus, errorMessage, statusMessage,
                     screenStream, deviceStream, recordingStream,
                     [mediaRecorder EXCEPT
                        !.emitted = n,
                        !.nonEmpty = IF size > 0 THEN Append(@, n) ELSE @],
                     IF KeepChunk(size) THEN Append(chunks, n) ELSE chunks,
                     pc, intent, pendingConstraints)
          /\ Observed("dataavailable", {}, <<>>, Kept)
          /\ Platform(streams, activeMicrophoneTrack, activeCameraTrack)

RecorderDataAvailable == RecorderEmits(MaxChunks)

\* an onerror handler that reports the fault and leaves the status
SessionOnErrorKeepingStatus ==
  /\ Session(recordingStatus, MsgRecordingFailed, statusMessage, screenStream,
             deviceStream, recordingStream,
             [mediaRecorder EXCEPT !.state = "inactive"],
             chunks, pc, intent, pendingConstraints)
  /\ Observed("recorder error", {}, <<>>, Kept)
  /\ Platform(streams, activeMicrophoneTrack, activeCameraTrack)

\* mediaRecorder.onerror as startRecording sets it
SessionOnError ==
  /\ Session("error", MsgRecordingFailed, statusMessage, screenStream,
             deviceStream, recordingStream,
             [mediaRecorder EXCEPT !.state = "inactive"],
             chunks, pc, intent, pendingConstraints)
  /\ Observed("recorder error", {}, <<"error">>, Kept)
  /\ Platform(streams, activeMicrophoneTrack, activeCameraTrack)

\* the recorder's error event: the platform stops the recorder and runs the
\* onerror handler in place
RecorderError ==
  /\ RecorderActive
  /\ UNCHANGED <<selectionVars, folderVars>>
  /\ IF mediaRecorder.onerror = "stopping"
     THEN StopCatch(MsgRecorderStopFailed, "recorder error", {})
     ELSE SessionOnError

\* a screen track without the end-of-track handler
ScreenTrackIgnored(h) == StopNoop("track ended", h)

\* screenVideoTrack.onended
ScreenTrackOnEnded(h) ==
  IF recordingStatus = "recording"
  THEN stopRecording("track ended", h)
  ELSE StopNoop("track ended", h)

\* the tracks that end by themselves: the user stops the screen share from
\* the browser's own control
EndingTracks(h) ==
  {t \in LiveTracks(h) : h[t[1]].kind = "screen"}

\* a live track of a screen stream ends on the platform's side (the user
\* stops the share from the browser's control); only the screen's video
\* track carries a handler
TrackEnded ==
  /\ UNCHANGED <<selectionVars, folderVars>>
  /\ \E t \in EndingTracks(streams) :
       LET h == [streams EXCEPT ![t[1]][t[2]] = "ended"]
       IN IF streams[t[1]].kind = "screen" /\ t[2] = "video"
          THEN ScreenTrackOnEnded(h)
          ELSE StopNoop("device track ended", h)

(***************************************************************************)
(* MediaDevicesService: enumeration, selection, toggles.                   *)
(***************************************************************************)
MsgCameraGone == "Selected camera is no longer available"
MsgMicrophoneGone == "Selected microphone is no longer available"
MsgSelectMicrophone == "Select a microphone first, then enable it"
MsgSelectCamera == "Select a camera first, then enable it"
EMPTY_DEVICE_ID_SENTINEL == "__EMPTY_DEVICE_ID__"

\* String.prototype.toLowerCase on the labels of the model
Lower(s) ==
  IF s = "Cam" THEN "cam" ELSE IF s = "Mic" THEN "mic"
  ELSE IF s = "MP4" THEN "mp4" ELSE s

\* `Camera ${index + 1}`, `Microphone ${index + 1}`
DefaultLabel(kind, n) ==
  IF kind = "videoinput"
  THEN <<"Camera 1", "Camera 2", "Camera 3", "Camera 4">>[n]
  ELSE <<"Microphone 1", "Microphone 2", "Microphone 3", "Microphone 4">>[n]

\* a key that carries the position for every device
createSelectionKeyByPosition(device, kind, index) ==
  <<kind, "id", Trim(device.deviceId), index>>

\* a key for the devices without an id that leaves the position out
createSelectionKeyWithoutIndex(device, kind, index) ==
  IF Trim(device.deviceId) # ""
  THEN <<kind, "id", Trim(device.deviceId)>>
  ELSE <<kind, "default",
         IF Trim(device.groupId) # "" THEN Trim(device.groupId)
         ELSE "no-group",
         IF Lower(Trim(device.label)) # "" THEN Lower(Trim(device.label))
         ELSE EMPTY_DEVICE_ID_SENTINEL>>

\* index is the 0-based position among the devices of the kind
createSelectionKey(device, kind, index) ==
  IF Trim(device.deviceId) # ""
  THEN <<kind, "id", Trim(device.deviceId)>>
  ELSE <<kind, "default",
         IF Trim(device.groupId) # "" THEN Trim(device.groupId)
         ELSE "no-group",
         IF Lower(Trim(device.label)) # "" THEN Lower(Trim(device.label))
         ELSE EMPTY_DEVICE_ID_SENTINEL,
         index>>

\* devices.filter(kind).map(...) of enumerateDevices
MapDevices(raw, kind) ==
  IF Len(raw) = 0 THEN <<>> ELSE
  [i \in 1..Len(raw) |->
     [selectionKey |-> createSelectionKey(raw[i], kind, i - 1),
      deviceId |-> raw[i].deviceId,
      label |-> IF raw[i].label # "" THEN raw[i].label
                ELSE DefaultLabel(kind, i),
      kind |-> kind,
      groupId |-> raw[i].groupId]]

isSelectionAvailable(devices, key) ==
  \E i \in 1..Len(devices) : devices[i].selectionKey = key

\* a prompt rule that forgets the answers the user already gave
ensurePromptOverAnswers(perm, enabledInput) ==
  IF enabledInput THEN "prompt"
  ELSE IF perm = "prompt" THEN "unknown" ELSE perm

\* what ensurePermissionPromptState leaves in _permissionState
ensurePermissionPromptState(perm, enabledInput) ==
  LET p1 == IF enabledInput /\ perm # "granted" /\ perm # "denied"
            THEN "prompt" ELSE perm
  IN IF ~enabledInput /\ p1 = "prompt" THEN "unknown" ELSE p1

HasEnabledInput(micOn, micKey, camOn, camKey) ==
  (micOn /\ micKey # NullKey) \/ (camOn /\ camKey # NullKey)

\* a validation that finds every key in the list
NeverVanished(devices, key) == FALSE

\* validateSelectedDevices: is the key of a kind cleared
Vanished(devices, key) ==
  key # NullKey /\ ~isSelectionAvailable(devices, key)

(***************************************************************************)
(* IndexedDbService: a value per object store.  The upgrade handler        *)
(* creates the stores of ObjectStores only; a transaction on any other     *)
(* store throws, so a get or a set on it rejects.                          *)
(***************************************************************************)
\* an upgrade that also creates the store of the device selections
ObjectStoresWithSelections == {"handles", "preferences", "deviceSelections"}

ObjectStores == {"handles", "preferences"}

NoPreferences ==
  [present |-> FALSE, microphoneEnabled |-> FALSE, cameraEnabled |-> FALSE]

\* a field of a stored selection that is null or missing
NullId == "<null>"

\* SelectedMediaDevices as stored: the keys of this revision, the raw ids of
\* the earlier one
StoredSelection(camKey, micKey, camId, micId) ==
  [present |-> TRUE, cameraSelectionKey |-> camKey,
   microphoneSelectionKey |-> micKey, cameraDeviceId |-> camId,
   microphoneDeviceId |-> micId]

NoSelection ==
  [StoredSelection(NullKey, NullKey, NullId, NullId) EXCEPT !.present = FALSE]

\* a database with the given object stores as an earlier visit left it
StoreHoldingOn(stores, handle, preferences, selection) ==
  [store \in stores |->
     IF store = "handles" THEN handle
     ELSE IF store = "preferences" THEN preferences
     ELSE selection]

StoreHolding(handle, preferences, selection) ==
  StoreHoldingOn(ObjectStores, handle, preferences, selection)

StoreExists(kv, store) == store \in DOMAIN kv

\* IndexedDbService.set: the value is put, or the promise rejects and the
\* caller logs it
DbSet(kv, store, value) ==
  IF StoreExists(kv, store) THEN [kv EXCEPT ![store] = value] ELSE kv

\* saveTogglePreferences, its write settled
saveTogglePreferences(kv, micOn, camOn) ==
  DbSet(kv, "preferences",
        [present |-> TRUE, microphoneEnabled |-> micOn, cameraEnabled |-> camOn])

\* saveDeviceSelection, its write settled
saveDeviceSelection(kv, camKey, micKey) ==
  DbSet(kv, "deviceSelections",
        StoredSelection(camKey, micKey, NullId, NullId))

MsgEnumerateFailed == "Failed to enumerate devices"
MsgEnableFirst == "Enable a selected microphone or camera first"
MsgSelectOrDisableCamera == "Select a camera or disable camera"
MsgSelectOrDisableMicrophone == "Select a microphone or disable microphone"
MsgPermissionDenied == "Permission denied by user"
MsgDevicesNotFound == "One or more devices not found"

\* the rest of the model is untouched by a registry mutator
RegistryCall(op, arg) ==
  /\ UNCHANGED <<sessionVars, folderVars, playbackVars, listingVars,
                 dbPromise>>
  /\ GhostOf(Tag("registry", op),
             IF observe = "registry" THEN arg ELSE NoArg, {}, <<>>, Kept)

RegistryFrame(op) == RegistryCall(op, NoArg)

\* enumerateDevices up to its await: the error is cleared and the platform
\* asked for its list
EnumerateBegin ==
  /\ "enumerateDevices" \notin inFlight
  /\ inFlight' = inFlight \cup {"enumerateDevices"}
  /\ mediaErrorMessage' = NullMsg
  /\ UNCHANGED <<availableCameras, availableMicrophones, selectedCameraKey,
                 selectedMicrophoneKey, microphoneEnabled, cameraEnabled,
                 screenSharingEnabled, permissionState, attachVars, streams,
                 kvStore, sessionVars, folderVars>>
  /\ Ghost(Tag("registry", "enumerateDevices"), {"enumerateDevices"}, <<>>,
           Kept)

\* enumerateDevices, the platform's list in hand: the lists are replaced and
\* the selections validated
EnumerateDevices(rawCameras, rawMicrophones) ==
  LET cameras == MapDevices(rawCameras, "videoinput")
      microphones == MapDevices(rawMicrophones, "audioinput")
      camGone == Vanished(cameras, selectedCameraKey)
      micGone == Vanished(microphones, selectedMicrophoneKey)
      camKey == IF camGone THEN NullKey ELSE selectedCameraKey
      micKey == IF micGone THEN NullKey ELSE selectedMicrophoneKey
      camOn == IF camGone THEN FALSE ELSE cameraEnabled
      micOn == IF micGone THEN FALSE ELSE microphoneEnabled
  IN /\ availableCameras' = cameras
     /\ availableMicrophones' = microphones
     /\ selectedCameraKey' = camKey
     /\ selectedMicrophoneKey' = micKey
     /\ cameraEnabled' = camOn
     /\ microphoneEnabled' = micOn
     /\ permissionState' =
          ensurePermissionPromptState(permissionState,
             HasEnabledInput(micOn, micKey, camOn, camKey))
     /\ "enumerateDevices" \in inFlight
     /\ inFlight' = inFlight \ {"enumerateDevices"}
     /\ UNCHANGED <<mediaErrorMessage, screenSharingEnabled, attachVars,
                    streams, kvStore>>
     /\ RegistryFrame("enumerateDevices resolved")

\* an enumeration whose failure empties the lists
EnumerateRejectClearing(msg) ==
  /\ "enumerateDevices" \in inFlight
  /\ inFlight' = inFlight \ {"enumerateDevices"}
  /\ mediaErrorMessage' = msg
  /\ availableCameras' = <<>>
  /\ availableMicrophones' = <<>>
  /\ UNCHANGED <<selectedCameraKey, selectedMicrophoneKey, microphoneEnabled,
                 cameraEnabled, screenSharingEnabled, permissionState,
                 attachVars, streams, kvStore>>
  /\ RegistryFrame("enumerateDevices rejected")

\* enumerateDevices, the platform's call rejected: error.message, or the
\* default text when what was thrown is no Error
EnumerateReject(msg) ==
  /\ "enumerateDevices" \in inFlight
  /\ inFlight' = inFlight \ {"enumerateDevices"}
  /\ mediaErrorMessage' = msg
  /\ UNCHANGED <<availableCameras, availableMicrophones, selectedCameraKey,
                 selectedMicrophoneKey, microphoneEnabled, cameraEnabled,
                 screenSharingEnabled, permissionState, attachVars, streams,
                 kvStore>>
  /\ RegistryFrame("enumerateDevices rejected")

\* a camera selection without the check of the list
SelectCameraUnchecked(key) ==
  /\ RegistryCall("selectCamera", key)
  /\ UNCHANGED <<inFlight, availableCameras, availableMicrophones,
                 selectedMicrophoneKey, microphoneEnabled, cameraEnabled,
                 screenSharingEnabled, attachVars, streams>>
  /\ selectedCameraKey' = key
  /\ mediaErrorMessage' = NullMsg
  /\ permissionState' =
       ensurePermissionPromptState(permissionState,
          HasEnabledInput(microphoneEnabled, selectedMicrophoneKey,
                          cameraEnabled, key))

SelectCamera(key) ==
  /\ RegistryCall("selectCamera", key)
  /\ UNCHANGED <<inFlight, availableCameras, availableMicrophones,
                 selectedMicrophoneKey, microphoneEnabled, cameraEnabled,
                 screenSharingEnabled, attachVars, streams>>
  /\ IF ~isSelectionAvailable(availableCameras, key)
     THEN /\ mediaErrorMessage' = MsgCameraGone
          /\ UNCHANGED <<selectedCameraKey, permissionState>>
     ELSE /\ selectedCameraKey' = key
          /\ mediaErrorMessage' = NullMsg
          /\ permissionState' =
               ensurePermissionPromptState(permissionState,
                  HasEnabledInput(microphoneEnabled, selectedMicrophoneKey,
                                  cameraEnabled, key))

SelectMicrophone(key) ==
  /\ RegistryCall("selectMicrophone", key)
  /\ UNCHANGED <<inFlight, availableCameras, availableMicrophones, selectedCameraKey,
                 microphoneEnabled, cameraEnabled, screenSharingEnabled,
                 attachVars, streams>>
  /\ IF ~isSelectionAvailable(availableMicrophones, key)
     THEN /\ mediaErrorMessage' = MsgMicrophoneGone
          /\ UNCHANGED <<selectedMicrophoneKey, permissionState>>
     ELSE /\ selectedMicrophoneKey' = key
          /\ mediaErrorMessage' = NullMsg
          /\ permissionState' =
               ensurePermissionPromptState(permissionState,
                  HasEnabledInput(microphoneEnabled, key, cameraEnabled,
                                  selectedCameraKey))

\* a microphone toggle that sets the flag and never reaches the live track
SetMicrophoneFlagOnly(enabled) ==
  /\ RegistryCall("setMicrophoneEnabled", <<enabled>>)
  /\ UNCHANGED <<inFlight, availableCameras, availableMicrophones,
                 selectedCameraKey, selectedMicrophoneKey, cameraEnabled,
                 screenSharingEnabled, attachVars, streams>>
  /\ IF enabled /\ selectedMicrophoneKey = NullKey
     THEN /\ mediaErrorMessage' = MsgSelectMicrophone
          /\ UNCHANGED <<microphoneEnabled, permissionState, kvStore>>
     ELSE /\ microphoneEnabled' = enabled
          /\ permissionState' =
               ensurePermissionPromptState(permissionState,
                  HasEnabledInput(enabled, selectedMicrophoneKey,
                                  cameraEnabled, selectedCameraKey))
          /\ mediaErrorMessage' = NullMsg
          /\ kvStore' = saveTogglePreferences(kvStore, enabled, cameraEnabled)

SetMicrophoneEnabled(enabled) ==
  /\ RegistryCall("setMicrophoneEnabled", <<enabled>>)
  /\ UNCHANGED <<inFlight, availableCameras, availableMicrophones, selectedCameraKey,
                 selectedMicrophoneKey, cameraEnabled, screenSharingEnabled,
                 attachVars>>
  /\ IF enabled /\ selectedMicrophoneKey = NullKey
     THEN /\ mediaErrorMessage' = MsgSelectMicrophone
          /\ UNCHANGED <<microphoneEnabled, permissionState, streams,
                         kvStore>>
     ELSE /\ microphoneEnabled' = enabled
          /\ streams' = applyDesiredStateToActiveTracks(streams,
                           activeMicrophoneTrack, activeCameraTrack, enabled,
                           cameraEnabled)
          /\ permissionState' =
               ensurePermissionPromptState(permissionState,
                  HasEnabledInput(enabled, selectedMicrophoneKey,
                                  cameraEnabled, selectedCameraKey))
          /\ mediaErrorMessage' = NullMsg
          /\ kvStore' = saveTogglePreferences(kvStore, enabled, cameraEnabled)

\* a camera toggle without the check of the selection
SetCameraUnchecked(enabled) ==
  /\ RegistryCall("setCameraEnabled", <<enabled>>)
  /\ UNCHANGED <<inFlight, availableCameras, availableMicrophones,
                 selectedCameraKey, selectedMicrophoneKey, microphoneEnabled,
                 screenSharingEnabled, attachVars>>
  /\ cameraEnabled' = enabled
  /\ streams' = applyDesiredStateToActiveTracks(streams,
                   activeMicrophoneTrack, activeCameraTrack,
                   microphoneEnabled, enabled)
  /\ permissionState' =
       ensurePermissionPromptState(permissionState,
          HasEnabledInput(microphoneEnabled, selectedMicrophoneKey,
                          enabled, selectedCameraKey))
  /\ mediaErrorMessage' = NullMsg
  /\ kvStore' = saveTogglePreferences(kvStore, microphoneEnabled, enabled)

SetCameraEnabled(enabled) ==
  /\ RegistryCall("setCameraEnabled", <<enabled>>)
  /\ UNCHANGED <<inFlight, availableCameras, availableMicrophones, selectedCameraKey,
                 selectedMicrophoneKey, microphoneEnabled,
                 screenSharingEnabled, attachVars>>
  /\ IF enabled /\ selectedCameraKey = NullKey
     THEN /\ mediaErrorMessage' = MsgSelectCamera
          /\ UNCHANGED <<cameraEnabled, permissionState, streams, kvStore>>
     ELSE /\ cameraEnabled' = enabled
          /\ streams' = applyDesiredStateToActiveTracks(streams,
                           activeMicrophoneTrack, activeCameraTrack,
                           microphoneEnabled, enabled)
          /\ permissionState' =
               ensurePermissionPromptState(permissionState,
                  HasEnabledInput(microphoneEnabled, selectedMicrophoneKey,
                                  enabled, selectedCameraKey))
          /\ mediaErrorMessage' = NullMsg
          /\ kvStore' = saveTogglePreferences(kvStore, microphoneEnabled,
                                              enabled)

\* devices is the list of the kind at the time of the call
resolveLegacySelectionKey(legacyDeviceId, kind, devices) ==
  IF legacyDeviceId = NullId THEN NullKey
  ELSE IF Trim(legacyDeviceId) # "" THEN <<kind, "id", Trim(legacyDeviceId)>>
  ELSE IF \E i \in 1..Len(devices) : Trim(devices[i].deviceId) = ""
  THEN devices[CHOOSE i \in 1..Len(devices) :
                 /\ Trim(devices[i].deviceId) = ""
                 /\ \A j \in 1..(i - 1) : Trim(devices[j].deviceId) # ""
              ].selectionKey
  ELSE NullKey

\* selection.cameraSelectionKey ?? this.resolveLegacySelectionKey(...)
LoadedKey(key, legacyDeviceId, kind, devices) ==
  IF key # NullKey THEN key
  ELSE resolveLegacySelectionKey(legacyDeviceId, kind, devices)

\* loadDeviceSelection, its read settled: a stored selection replaces both
\* keys, unvalidated; a rejected read is logged and nothing changes
LoadDeviceSelection ==
  /\ "loadDeviceSelection" \in inFlight
  /\ inFlight' = inFlight \ {"loadDeviceSelection"}
  /\ IF StoreExists(kvStore, "deviceSelections")
        /\ kvStore["deviceSelections"].present
     THEN LET selection == kvStore["deviceSelections"]
          IN /\ selectedCameraKey' =
                  LoadedKey(selection.cameraSelectionKey,
                            selection.cameraDeviceId, "videoinput",
                            availableCameras)
             /\ selectedMicrophoneKey' =
                  LoadedKey(selection.microphoneSelectionKey,
                            selection.microphoneDeviceId, "audioinput",
                            availableMicrophones)
     ELSE UNCHANGED <<selectedCameraKey, selectedMicrophoneKey>>
  /\ UNCHANGED <<availableCameras, availableMicrophones, microphoneEnabled,
                 cameraEnabled, screenSharingEnabled, permissionState,
                 mediaErrorMessage, attachVars, streams, kvStore>>
  /\ RegistryFrame("loadDeviceSelection settled")

\* loadTogglePreferences, its read settled: stored preferences replace both
\* flags
LoadTogglePreferences ==
  /\ "loadTogglePreferences" \in inFlight
  /\ inFlight' = inFlight \ {"loadTogglePreferences"}
  /\ IF StoreExists(kvStore, "preferences") /\ kvStore["preferences"].present
     THEN /\ microphoneEnabled' = kvStore["preferences"].microphoneEnabled
          /\ cameraEnabled' = kvStore["preferences"].cameraEnabled
     ELSE UNCHANGED <<microphoneEnabled, cameraEnabled>>
  /\ UNCHANGED <<availableCameras, availableMicrophones, selectedCameraKey,
                 selectedMicrophoneKey, screenSharingEnabled, permissionState,
                 mediaErrorMessage, attachVars, streams, kvStore>>
  /\ RegistryFrame("loadTogglePreferences settled")

\* a requestPermission without early returns
PermissionNeverRefused == NullMsg

\* the early returns of requestPermission: the message of the first that
\* applies, NullMsg when none does
PermissionRefusal ==
  IF ~HasEnabledInput(microphoneEnabled, selectedMicrophoneKey, cameraEnabled,
                      selectedCameraKey)
  THEN MsgEnableFirst
  ELSE IF cameraEnabled /\ selectedCameraKey = NullKey
  THEN MsgSelectOrDisableCamera
  ELSE IF microphoneEnabled /\ selectedMicrophoneKey = NullKey
  THEN MsgSelectOrDisableMicrophone
  ELSE NullMsg

\* requestPermission up to its await
RequestPermission ==
  /\ "requestPermission" \notin inFlight
  /\ UNCHANGED <<availableCameras, availableMicrophones, selectedCameraKey,
                 selectedMicrophoneKey, microphoneEnabled, cameraEnabled,
                 screenSharingEnabled, permissionState, attachVars, streams,
                 kvStore, sessionVars, folderVars>>
  /\ IF PermissionRefusal # NullMsg
     THEN /\ mediaErrorMessage' = PermissionRefusal
          /\ UNCHANGED inFlight
          /\ Ghost(Tag("registry", "requestPermission"), {}, <<>>, Kept)
     ELSE /\ mediaErrorMessage' = NullMsg
          /\ inFlight' = inFlight \cup {"requestPermission"}
          /\ Ghost(Tag("registry", "requestPermission"), {"getUserMedia"},
                   <<>>, Kept)

PermissionFrame ==
  /\ "requestPermission" \in inFlight
  /\ inFlight' = inFlight \ {"requestPermission"}
  /\ UNCHANGED <<availableCameras, availableMicrophones, selectedCameraKey,
                 selectedMicrophoneKey, microphoneEnabled, cameraEnabled,
                 screenSharingEnabled, attachVars, kvStore>>

\* the heap after getUserMedia gave the probe stream of requestPermission
ProbeHeap(h, hasVideo, hasAudio) ==
  [h EXCEPT ![NewId(h)] = NewStream("probe", hasVideo, hasAudio)]

\* a probe whose tracks are left running
PermissionGrantedKeepingTracks ==
  /\ PermissionFrame
  /\ FreeIds(streams) # {}
  /\ permissionState' = "granted"
  /\ UNCHANGED mediaErrorMessage
  /\ RegistryFrame("getUserMedia resolved")
  /\ \E hasVideo \in BOOLEAN, hasAudio \in BOOLEAN :
       /\ hasVideo \/ hasAudio
       /\ streams' = Norm(ProbeHeap(streams, hasVideo, hasAudio), Roots')

\* requestPermission, getUserMedia resolved with a stream of at least one
\* track: every track of it is stopped and the state set to granted
PermissionGranted ==
  /\ PermissionFrame
  /\ FreeIds(streams) # {}
  /\ permissionState' = "granted"
  /\ UNCHANGED mediaErrorMessage
  /\ RegistryFrame("getUserMedia resolved")
  /\ \E hasVideo \in BOOLEAN, hasAudio \in BOOLEAN :
       /\ hasVideo \/ hasAudio
       /\ LET h == ProbeHeap(streams, hasVideo, hasAudio)
          IN streams' = Norm(StopAll(h, TracksOf(h, NewId(streams))), Roots')

\* requestPermission, getUserMedia rejected with a DOMException of the name,
\* or with another error ("Error")
PermissionRejected(name) ==
  /\ PermissionFrame
  /\ permissionState' = IF name = "NotAllowedError" THEN "denied"
                        ELSE permissionState
  /\ mediaErrorMessage' = IF name = "NotAllowedError" THEN MsgPermissionDenied
                          ELSE IF name = "NotFoundError"
                          THEN MsgDevicesNotFound
                          ELSE MsgPlatform
  /\ UNCHANGED streams
  /\ RegistryCall("getUserMedia rejected", <<name>>)

\* clear: the reset of the registry
Clear ==
  /\ selectedCameraKey' = NullKey
  /\ selectedMicrophoneKey' = NullKey
  /\ microphoneEnabled' = TRUE
  /\ cameraEnabled' = FALSE
  /\ activeMicrophoneTrack' = NullTrack
  /\ activeCameraTrack' = NullTrack
  /\ permissionState' = "unknown"
  /\ mediaErrorMessage' = NullMsg
  /\ UNCHANGED <<availableCameras, availableMicrophones,
                 screenSharingEnabled, streams, asyncVars>>
  /\ RegistryFrame("clear")

\* the screen-sharing toggle of the registry
SetScreenSharingEnabled(enabled) ==
  /\ RegistryFrame("setScreenSharingEnabled")
  /\ screenSharingEnabled' = enabled
  /\ UNCHANGED <<asyncVars, availableCameras, availableMicrophones, selectedCameraKey,
                 selectedMicrophoneKey, microphoneEnabled, cameraEnabled,
                 permissionState, mediaErrorMessage, attachVars, streams>>

(***************************************************************************)
(* FolderStorageService: the folder handle and its permission.             *)
(***************************************************************************)
FolderFrame(op) ==
  /\ UNCHANGED <<sessionVars, selectionVars, attachVars, streams, inFlight>>
  /\ Ghost(Tag("folder", op), {}, <<>>, Kept)

\* selectNewFolder, the picker resolved and the handle stored
SelectNewFolder ==
  /\ FolderFrame("selectNewFolder")
  /\ folderHandle' = "folder"
  /\ folderPermissionState' = "granted"
  /\ kvStore' = DbSet(kvStore, "handles", "folder")

\* requestPermission of the folder: the platform's answer, or "denied" when
\* the request throws
FolderRequestPermission(answer) ==
  /\ folderHandle # "none"
  /\ FolderFrame("requestPermission")
  /\ folderPermissionState' = answer
  /\ UNCHANGED <<folderHandle, kvStore>>

(***************************************************************************)
(* The devices the platform lists: per kind, up to MaxDevices devices.     *)
(***************************************************************************)
\* a device id, or the empty id the platform reports before permission
RawIds == {"d1", ""}

RawDevices(kind) ==
  {[kind |-> kind, deviceId |-> id, groupId |-> "g1", label |-> ""] :
     id \in RawIds}

RawLists(kind) ==
  UNION {[1..n -> RawDevices(kind)] : n \in 0..MaxDevices}

\* every selection key a list of the platform can give
KnownKeys(kind) ==
  {createSelectionKey(d, kind, i) :
     d \in RawDevices(kind), i \in 0..(MaxDevices - 1)}

(***************************************************************************)
(* The state after the services are constructed.  The page initialises the *)
(* registry and the folder before the user can record, so a session starts *)
(* either over a fresh registry (nothing listed, nothing selected, no      *)
(* folder) or over a registry that listed and selected one camera and one  *)
(* microphone, with a folder whose permission is granted.                   *)
(***************************************************************************)
ListedDevice(kind) ==
  MapDevices(<<[kind |-> kind, deviceId |-> "d1", groupId |-> "g1",
                label |-> ""]>>, kind)

\* the listing of FolderStorageService as constructed
ListingConstructed ==
  /\ recordings = <<>>
  /\ recordingsLoading = FALSE
  /\ recordingsError = NullMsg
  /\ folderPending = {}

\* HomeComponent as constructed: nothing is played
HomeConstructed ==
  /\ activePlaybackObjectUrl = NoUrl
  /\ playbackUrl = NoUrl
  /\ selectedRecording = NoRecording
  /\ playbackError = NullMsg
  /\ playbackLoading = FALSE
  /\ plays = [i \in 1..MaxPlays |-> NoPlay]
  /\ destroyed = FALSE
  /\ objectUrls = {}
  /\ urlsCreated = 0

FreshRegistry ==
  /\ availableCameras = <<>>
  /\ availableMicrophones = <<>>
  /\ selectedCameraKey = NullKey
  /\ selectedMicrophoneKey = NullKey
  /\ folderHandle = "none"
  /\ folderPermissionState = "unknown"

ReadyRegistry ==
  /\ availableCameras = ListedDevice("videoinput")
  /\ availableMicrophones = ListedDevice("audioinput")
  /\ selectedCameraKey = availableCameras[1].selectionKey
  /\ selectedMicrophoneKey = availableMicrophones[1].selectionKey
  /\ folderHandle = "folder"
  /\ folderPermissionState = "granted"

\* the application settled after its start, nothing in flight
AppLoaded ==
  /\ recordingStatus = "idle"
  /\ errorMessage = NullMsg
  /\ statusMessage = NullMsg
  /\ screenStream = NoStream
  /\ deviceStream = NoStream
  /\ recordingStream = NullRecordingStream
  /\ mediaRecorder = NoRecorder
  /\ chunks = <<>>
  /\ pc = "none"
  /\ intent = NoIntent
  /\ pendingConstraints = NoConstraints
  /\ HomeConstructed
  /\ ListingConstructed
  /\ (FreshRegistry \/ ReadyRegistry)
  /\ microphoneEnabled = TRUE
  /\ cameraEnabled = FALSE
  /\ screenSharingEnabled = FALSE
  /\ activeMicrophoneTrack = NullTrack
  /\ activeCameraTrack = NullTrack
  /\ permissionState = "unknown"
  /\ mediaErrorMessage = NullMsg
  /\ inFlight = {}
  /\ kvStore = StoreHolding(folderHandle,
                            [present |-> TRUE,
                             microphoneEnabled |-> microphoneEnabled,
                             cameraEnabled |-> cameraEnabled],
                            NoSelection)
  /\ streams = [i \in StreamIds |-> Free]
  /\ lastOp = "constructed"
  /\ calls = {}
  /\ statusWrites = <<>>
  /\ acquired = {}
  /\ saved = NoSave
  /\ lastArg = NoArg
  /\ previousSession = NoArg

\* ... over an empty folder, the database opened by the initialization of
\* the services
AppStarted == AppLoaded /\ folderEntries = <<>> /\ dbPromise = "resolved"

Init == AppStarted /\ observe = "session"

\* the keys the device pickers of the page offer
OfferedKeys(devices) == {devices[i].selectionKey : i \in 1..Len(devices)}

Next ==
  \/ StartRecording
  \/ DisplayMediaResolve
  \/ DisplayMediaCancel
  \/ DisplayMediaReject
  \/ UserMediaResolve
  \/ UserMediaReject
  \/ StopRecording
  \/ RecorderDataAvailable
  \/ RecorderStop
  \/ RecorderError
  \/ SaveResolve
  \/ SaveReject
  \/ RefreshSettle
  \/ ClearError
  \/ TrackEnded
  \/ \E b \in BOOLEAN :
       (b => selectedMicrophoneKey # NullKey) /\ SetMicrophoneEnabled(b)
  \/ \E b \in BOOLEAN :
       (b => selectedCameraKey # NullKey) /\ SetCameraEnabled(b)
  \/ \E b \in BOOLEAN : SetScreenSharingEnabled(b)

Spec == Init /\ [][Next]_vars

(***************************************************************************)
(* The registry on its own: the state right after the constructor of       *)
(* MediaDevicesService, which starts initializeDevices, and every public   *)
(* method of the registry from then on.  The key-value store holds what an *)
(* earlier visit left: no toggle preferences, or a pair of them, and, in   *)
(* the store of the selections if there is one, no selection or a pair of  *)
(* keys.  At most one call of each async method is in flight.              *)
(***************************************************************************)
StoredPreferences ==
  {NoPreferences} \cup
  {[present |-> TRUE, microphoneEnabled |-> m, cameraEnabled |-> c] :
     m \in BOOLEAN, c \in BOOLEAN}

StoredSelections ==
  {NoSelection} \cup
  {StoredSelection(c, m, NullId, NullId) :
     c \in KnownKeys("videoinput") \cup {NullKey},
     m \in KnownKeys("audioinput") \cup {NullKey}}

\* the registry as its constructor leaves it, the database aside
RegistryConstructed ==
  /\ recordingStatus = "idle"
  /\ errorMessage = NullMsg
  /\ statusMessage = NullMsg
  /\ screenStream = NoStream
  /\ deviceStream = NoStream
  /\ recordingStream = NullRecordingStream
  /\ mediaRecorder = NoRecorder
  /\ chunks = <<>>
  /\ pc = "none"
  /\ intent = NoIntent
  /\ pendingConstraints = NoConstraints
  /\ HomeConstructed
  /\ ListingConstructed
  /\ FreshRegistry
  /\ microphoneEnabled = TRUE
  /\ cameraEnabled = FALSE
  /\ screenSharingEnabled = FALSE
  /\ activeMicrophoneTrack = NullTrack
  /\ activeCameraTrack = NullTrack
  /\ permissionState = "unknown"
  /\ mediaErrorMessage = NullMsg
  /\ inFlight = {"enumerateDevices", "loadDeviceSelection",
                 "loadTogglePreferences"}
  /\ streams = [i \in StreamIds |-> Free]
  /\ lastOp = "constructed"
  /\ calls = {"enumerateDevices"}
  /\ statusWrites = <<>>
  /\ acquired = {}
  /\ saved = NoSave
  /\ lastArg = NoArg
  /\ previousSession = NoArg
  /\ folderEntries = <<>>
  /\ dbPromise = "resolved"
  /\ observe = "registry"

RegistryInit ==
  /\ RegistryConstructed
  /\ \E prefs \in StoredPreferences, selection \in StoredSelections :
       kvStore = StoreHolding("none", prefs, selection)

\* onSelectCamera of the page: the picker's value, then the selection saved
OnSelectCamera(value) ==
  /\ value # NullKey
  /\ SelectCamera(value)
  /\ kvStore' = saveDeviceSelection(kvStore, selectedCameraKey',
                                    selectedMicrophoneKey')

OnSelectMicrophone(value) ==
  /\ value # NullKey
  /\ SelectMicrophone(value)
  /\ kvStore' = saveDeviceSelection(kvStore, selectedCameraKey',
                                    selectedMicrophoneKey')

RegistryNext ==
  \/ EnumerateBegin
  \/ \E c \in RawLists("videoinput"), m \in RawLists("audioinput") :
       EnumerateDevices(c, m)
  \/ \E msg \in {MsgEnumerateFailed, MsgPlatform} : EnumerateReject(msg)
  \/ LoadDeviceSelection
  \/ LoadTogglePreferences
  \/ \E key \in KnownKeys("videoinput") : OnSelectCamera(key)
  \/ \E key \in KnownKeys("audioinput") : OnSelectMicrophone(key)
  \/ \E b \in BOOLEAN : SetMicrophoneEnabled(b)
  \/ \E b \in BOOLEAN : SetCameraEnabled(b)
  \/ RequestPermission
  \/ PermissionGranted
  \/ \E name \in {"NotAllowedError", "NotFoundError", "Error"} :
       PermissionRejected(name)
  \/ Clear

RegistrySpec == RegistryInit /\ [][RegistryNext]_vars

(***************************************************************************)
(* Enumeration on its own: the registry right after its constructor, over  *)
(* a platform that lists up to MaxListed devices of a kind with any mix of *)
(* ids (two real ones, the empty one, a blank one), group ids and labels.  *)
(* The platform gives the devices of one kind pairwise different ids       *)
(* unless the ids are empty.  An enumeration lists devices of one kind;    *)
(* no toggle preferences are stored.                                       *)
(***************************************************************************)
MaxListed == 2

WideDevices(kind) ==
  {[kind |-> kind, deviceId |-> id, groupId |-> g, label |-> l] :
     id \in {"d1", "d2", "", " "}, g \in {"g1", ""}, l \in {"Cam", ""}}

DistinctIds(raw) ==
  \A i \in 1..Len(raw), j \in 1..Len(raw) :
    (i # j /\ Trim(raw[i].deviceId) # "") =>
      raw[i].deviceId # raw[j].deviceId

WideLists(kind) ==
  {raw \in UNION {[1..n -> WideDevices(kind)] : n \in 0..MaxListed} :
     DistinctIds(raw)}

EnumerationInit ==
  /\ RegistryInit
  /\ kvStore["preferences"] = NoPreferences

EnumerationNext ==
  \/ EnumerateBegin
  \/ \E c \in WideLists("videoinput") : EnumerateDevices(c, <<>>)
  \/ \E m \in WideLists("audioinput") : EnumerateDevices(<<>>, m)
  \/ \E key \in OfferedKeys(availableCameras) : OnSelectCamera(key)
  \/ \E key \in OfferedKeys(availableMicrophones) : OnSelectMicrophone(key)

EnumerationSpec == EnumerationInit /\ [][EnumerationNext]_vars

(***************************************************************************)
(* The initialization on its own, over a database that has the store of    *)
(* the device selections and in it a record of the earlier format: no      *)
(* selection keys, and per kind a raw device id, an empty one, or none.    *)
(* initializeDevices runs the enumeration and the two loads together, and  *)
(* they settle in any order.                                               *)
(***************************************************************************)
LegacySelections ==
  {StoredSelection(NullKey, NullKey, c, m) :
     c \in {"d1", "", NullId}, m \in {"d1", "", NullId}}

LegacyInit ==
  /\ RegistryConstructed
  /\ \E selection \in LegacySelections :
       kvStore = StoreHoldingOn(ObjectStores \cup {"deviceSelections"}, "none",
                                NoPreferences, selection)

LegacyNext ==
  \/ \E c \in RawLists("videoinput"), m \in RawLists("audioinput") :
       EnumerateDevices(c, m)
  \/ \E msg \in {MsgEnumerateFailed, MsgPlatform} : EnumerateReject(msg)
  \/ LoadDeviceSelection
  \/ LoadTogglePreferences

LegacySpec == LegacyInit /\ [][LegacyNext]_vars

(***************************************************************************)
(* The chunks of a recording.  Sessions over a ready registry that record  *)
(* the selected microphone, with a recorder that emits up to MaxEmitted    *)
(* chunks, empty or not, while recording and while it finalizes.           *)
(***************************************************************************)
MaxEmitted == 3

ChunkInit == AppStarted /\ ReadyRegistry /\ observe = "session"

ChunkNext ==
  \/ StartRecording
  \/ UserMediaResolve
  \/ UserMediaReject
  \/ StopRecording
  \/ RecorderEmits(MaxEmitted)
  \/ RecorderStop
  \/ RecorderError
  \/ SaveResolve
  \/ SaveReject
  \/ RefreshSettle
  \/ ClearError

ChunkSpec == ChunkInit /\ [][ChunkNext]_vars

(***************************************************************************)
(* Two visits of the page over one database.  The machine has one camera   *)
(* and one microphone, listed the same way by every enumeration.  The page *)
(* is reloaded at most once: the services are constructed anew and         *)
(* initializeDevices runs again, over the key-value store as the first     *)
(* visit left it.  The pickers are used in the first visit only.           *)
(***************************************************************************)
SameList(kind) ==
  <<[kind |-> kind, deviceId |-> "d1", groupId |-> "g1", label |-> ""]>>

\* the page is loaded again: the constructor of MediaDevicesService
PageReload ==
  /\ previousSession = NoArg
  /\ recordingStatus = "idle"
  /\ pc = "none"
  /\ previousSession' = <<selectedCameraKey, selectedMicrophoneKey>>
  /\ availableCameras' = <<>>
  /\ availableMicrophones' = <<>>
  /\ selectedCameraKey' = NullKey
  /\ selectedMicrophoneKey' = NullKey
  /\ microphoneEnabled' = TRUE
  /\ cameraEnabled' = FALSE
  /\ permissionState' = "unknown"
  /\ mediaErrorMessage' = NullMsg
  /\ inFlight' = {"enumerateDevices", "loadDeviceSelection",
                  "loadTogglePreferences"}
  /\ UNCHANGED <<sessionVars, screenSharingEnabled, attachVars, folderVars,
                 kvStore, dbPromise, playbackVars, listingVars, streams>>
  /\ HandlerMarks(Tag("registry", "constructor"), NoArg,
                  {"enumerateDevices"}, <<>>, Kept)

PersistenceInit ==
  /\ RegistryConstructed
  /\ kvStore = StoreHolding("none", NoPreferences, NoSelection)

PersistenceNext ==
  \/ EnumerateDevices(SameList("videoinput"), SameList("audioinput"))
  \/ LoadDeviceSelection
  \/ LoadTogglePreferences
  \/ \E key \in OfferedKeys(availableCameras) :
       previousSession = NoArg /\ OnSelectCamera(key)
  \/ \E key \in OfferedKeys(availableMicrophones) :
       previousSession = NoArg /\ OnSelectMicrophone(key)
  \/ \E b \in BOOLEAN : SetMicrophoneEnabled(b)
  \/ \E b \in BOOLEAN : SetCameraEnabled(b)
  \/ PageReload

PersistenceSpec == PersistenceInit /\ [][PersistenceNext]_vars

(***************************************************************************)
(* FolderStorageService: the listing, the reads and the writes.  The       *)
(* folder holds up to MaxEntries entries, files or directories; a name is  *)
(* the sequence of its parts between the dots, so that split('.') is the   *)
(* name itself.  An async method is cut at its first await: the step that  *)
(* calls it and the step in which the platform's answer is handled.  At    *)
(* most one call of each method is in flight, and one file is read,        *)
(* written and deleted from outside.                                       *)
(***************************************************************************)
MaxEntries == 2

FileNames == {<<"a", "webm">>, <<"b", "MP4">>, <<"notes", "txt">>, <<"webm">>}

Entries ==
  {[name |-> n, kind |-> k, lastModified |-> t] :
     n \in FileNames, k \in {"file", "directory"}, t \in {1, 2}}

\* the one file that is read, written and deleted
AccessedName == <<"a", "webm">>

DistinctNames(es) ==
  \A i \in 1..Len(es), k \in 1..Len(es) : es[i].name = es[k].name => i = k

Folders ==
  {es \in UNION {[1..n -> Entries] : n \in 0..MaxEntries} : DistinctNames(es)}

supportedExtensions ==
  {"webm", "mp4", "mov", "mkv", "mp3", "wav", "m4a", "ogg", "opus"}

\* filename.split('.').pop()?.toLowerCase() is a supported extension
isRecordingFile(filename) ==
  Lower(filename[Len(filename)]) \in supportedExtensions

\* the entries the loop of refreshRecordings keeps, as summaries
RECURSIVE CollectRecordings(_)
CollectRecordings(es) ==
  IF es = <<>> THEN <<>>
  ELSE LET e == Head(es)
       IN (IF e.kind = "file" /\ isRecordingFile(e.name)
           THEN <<[name |-> e.name, lastModified |-> e.lastModified]>>
           ELSE <<>>) \o CollectRecordings(Tail(es))

\* Array.prototype.sort((a, b) => b.lastModified - a.lastModified): stable
InsertNewestFirst(r, sorted) ==
  LET k == Cardinality({i \in 1..Len(sorted) :
                          sorted[i].lastModified >= r.lastModified})
  IN SubSeq(sorted, 1, k) \o <<r>> \o SubSeq(sorted, k + 1, Len(sorted))

RECURSIVE SortNewestFirst(_)
SortNewestFirst(rs) ==
  IF rs = <<>> THEN <<>>
  ELSE InsertNewestFirst(rs[Len(rs)],
                         SortNewestFirst(SubSeq(rs, 1, Len(rs) - 1)))

FolderReady == folderHandle # "none" /\ folderPermissionState = "granted"

\* the error a call rejects with before it touches the folder, if any
FolderAccessCheck ==
  IF folderHandle = "none" THEN <<"FolderAccessError", "NOT_FOUND">>
  ELSE IF folderPermissionState # "granted"
  THEN <<"FolderAccessError", "PERMISSION_DENIED">>
  ELSE <<>>

HasFile(es, name) ==
  \E i \in 1..Len(es) : es[i].name = name /\ es[i].kind = "file"

HasEntry(es, name) == \E i \in 1..Len(es) : es[i].name = name

Pending(op, name) == [op |-> op, name |-> name]

ListingFrame(op, result, cs) ==
  /\ UNCHANGED <<sessionVars, selectionVars, attachVars, streams, asyncVars,
                 dbPromise, playbackVars, folderVars>>
  /\ GhostOf(Tag("folder", op), result, cs, <<>>, Kept)

\* refreshRecordings up to its first await
RefreshRecordings ==
  /\ Pending("refresh", <<>>) \notin folderPending
  /\ IF ~FolderReady
     THEN /\ recordings' = <<>>
          /\ recordingsLoading' = FALSE
          /\ recordingsError' = NullMsg
          /\ UNCHANGED folderPending
          /\ ListingFrame("refreshRecordings", NoArg, {})
     ELSE /\ recordingsLoading' = TRUE
          /\ recordingsError' = NullMsg
          /\ folderPending' = folderPending \cup {Pending("refresh", <<>>)}
          /\ UNCHANGED recordings
          /\ ListingFrame("refreshRecordings", NoArg, {"entries"})
  /\ UNCHANGED folderEntries

\* the iteration over the folder came to its end
RefreshListed ==
  /\ Pending("refresh", <<>>) \in folderPending
  /\ folderPending' = folderPending \ {Pending("refresh", <<>>)}
  /\ recordings' = SortNewestFirst(CollectRecordings(folderEntries))
  /\ recordingsLoading' = FALSE
  /\ UNCHANGED <<recordingsError, folderEntries>>
  /\ ListingFrame("refreshRecordings listed", NoArg, {})

\* the iteration threw
RefreshFailed ==
  /\ Pending("refresh", <<>>) \in folderPending
  /\ folderPending' = folderPending \ {Pending("refresh", <<>>)}
  /\ recordings' = <<>>
  /\ recordingsError' = "Unable to load recordings from selected folder"
  /\ recordingsLoading' = FALSE
  /\ UNCHANGED folderEntries
  /\ ListingFrame("refreshRecordings failed", NoArg, {})

\* readRecordingFile up to its first await
ReadRecordingFile(name) ==
  /\ Pending("read", name) \notin folderPending
  /\ IF FolderAccessCheck # <<>>
     THEN /\ UNCHANGED folderPending
          /\ ListingFrame("readRecordingFile", FolderAccessCheck, {})
     ELSE /\ folderPending' = folderPending \cup {Pending("read", name)}
          /\ ListingFrame("readRecordingFile", NoArg, {"getFileHandle"})
  /\ UNCHANGED <<recordings, recordingsLoading, recordingsError, folderEntries>>

\* the platform answered the read: the file, or an error that the catch
\* block replaces
ReadSettled(name) ==
  /\ Pending("read", name) \in folderPending
  /\ folderPending' = folderPending \ {Pending("read", name)}
  /\ UNCHANGED <<recordings, recordingsLoading, recordingsError, folderEntries>>
  /\ \E platformFails \in BOOLEAN :
       IF HasFile(folderEntries, name) /\ ~platformFails
       THEN ListingFrame("readRecordingFile settled", <<"resolved">>, {})
       ELSE ListingFrame("readRecordingFile settled",
                         <<"Error", "Recording file could not be read">>, {})

\* saveRecording up to its first await
SaveRecording(name) ==
  /\ Pending("save", name) \notin folderPending
  /\ IF FolderAccessCheck # <<>>
     THEN /\ UNCHANGED folderPending
          /\ ListingFrame("saveRecording", FolderAccessCheck, {})
     ELSE /\ folderPending' = folderPending \cup {Pending("save", name)}
          /\ ListingFrame("saveRecording", NoArg, {"getFileHandle"})
  /\ UNCHANGED <<recordings, recordingsLoading, recordingsError, folderEntries>>

\* the folder with the file written: a new entry, or the file replaced
Written(es, name, time) ==
  LET e == [name |-> name, kind |-> "file", lastModified |-> time]
  IN IF HasEntry(es, name)
     THEN [i \in 1..Len(es) |-> IF es[i].name = name THEN e ELSE es[i]]
     ELSE Append(es, e)

\* the write went through, or the catch block replaced the platform's error
SaveSettled(name) ==
  /\ Pending("save", name) \in folderPending
  /\ folderPending' = folderPending \ {Pending("save", name)}
  /\ UNCHANGED <<recordings, recordingsLoading, recordingsError>>
  /\ \/ /\ HasFile(folderEntries, name) \/ ~HasEntry(folderEntries, name)
        /\ HasEntry(folderEntries, name) \/ Len(folderEntries) < MaxEntries
        /\ \E time \in {1, 2} :
             folderEntries' = Written(folderEntries, name, time)
        /\ ListingFrame("saveRecording settled", <<"resolved">>, {})
     \/ /\ UNCHANGED folderEntries
        /\ ListingFrame("saveRecording settled",
                        <<"Error", "Failed to save recording to folder">>, {})

\* an entry is deleted from outside the application
EntryDeleted(name) ==
  /\ HasEntry(folderEntries, name)
  /\ folderEntries' = SelectSeq(folderEntries, LAMBDA e : e.name # name)
  /\ UNCHANGED <<recordings, recordingsLoading, recordingsError, folderPending>>
  /\ ListingFrame("entry deleted", NoArg, {})

FolderInit ==
  /\ AppLoaded
  /\ folderEntries \in Folders
  /\ dbPromise = "resolved"
  /\ observe = "folder"

FolderNext ==
  \/ SelectNewFolder
  \/ \E answer \in {"granted", "denied", "prompt"} :
       FolderRequestPermission(answer)
  \/ RefreshRecordings
  \/ RefreshListed
  \/ RefreshFailed
  \/ ReadRecordingFile(AccessedName)
  \/ ReadSettled(AccessedName)
  \/ SaveRecording(AccessedName)
  \/ SaveSettled(AccessedName)
  \/ EntryDeleted(AccessedName)

FolderSpec == FolderInit /\ [][FolderNext]_vars

(***************************************************************************)
(* The registry and a recording together: the page is used while the       *)
(* loads of initializeDevices are still in flight, and the devices are     *)
(* enumerated again while a recording runs.  The machine has one camera    *)
(* and one microphone, each plugged in or not at an enumeration.  No       *)
(* folder is selected and the recorder emits nothing, so a stop ends       *)
(* without a write.                                                        *)
(***************************************************************************)
PluggedLists(kind) == {<<>>, SameList(kind)}

TrackInit ==
  /\ RegistryConstructed
  /\ \E prefs \in StoredPreferences :
       kvStore = StoreHolding("none", prefs, NoSelection)

TrackNext ==
  \/ EnumerateBegin
  \/ \E c \in PluggedLists("videoinput"), m \in PluggedLists("audioinput") :
       EnumerateDevices(c, m)
  \/ LoadDeviceSelection
  \/ LoadTogglePreferences
  \/ \E key \in OfferedKeys(availableCameras) : OnSelectCamera(key)
  \/ \E key \in OfferedKeys(availableMicrophones) : OnSelectMicrophone(key)
  \/ \E b \in BOOLEAN : SetMicrophoneEnabled(b)
  \/ \E b \in BOOLEAN : SetCameraEnabled(b)
  \/ StartRecording
  \/ UserMediaResolve
  \/ UserMediaReject
  \/ StopRecording
  \/ RecorderStop
  \/ ClearError

TrackSpec == TrackInit /\ [][TrackNext]_vars

(***************************************************************************)
(* A start with the screen-source picker open while the registry changes:  *)
(* the microphone is toggled, the devices are enumerated again with the    *)
(* microphone plugged in or not, and a listed microphone is selected.      *)
(***************************************************************************)
PickerInit == AppStarted /\ ReadyRegistry /\ observe = "session"

PickerNext ==
  \/ \E b \in BOOLEAN : SetScreenSharingEnabled(b)
  \/ StartRecording
  \/ DisplayMediaResolve
  \/ DisplayMediaCancel
  \/ DisplayMediaReject
  \/ UserMediaResolve
  \/ UserMediaReject
  \/ StopRecording
  \/ RecorderStop
  \/ ClearError
  \/ \E b \in BOOLEAN :
       (b => selectedMicrophoneKey # NullKey) /\ SetMicrophoneEnabled(b)
  \/ EnumerateBegin
  \/ \E m \in PluggedLists("audioinput") :
       EnumerateDevices(SameList("videoinput"), m)
  \/ \E key \in OfferedKeys(availableMicrophones) : OnSelectMicrophone(key)

PickerSpec == PickerInit /\ [][PickerNext]_vars

(***************************************************************************)
(* IndexedDbService on its own: get, set and delete on a database that     *)
(* opens or not and whose requests succeed or not.  openDatabase caches    *)
(* its promise, so the first call decides for all.  A call is one step:    *)
(* lastArg holds how its promise settled.                                  *)
(***************************************************************************)
StoreNames == {"handles", "preferences", "deviceSelections"}

\* openDatabase: the cached promise, or a new one
openDatabase(opens) ==
  IF dbPromise # "null" THEN dbPromise
  ELSE IF opens THEN "resolved" ELSE "rejected"

\* how the promise built around the request settles: db.transaction throws
\* in the executor when the store does not exist
RequestOutcome(storeName, requestFails) ==
  IF ~StoreExists(kvStore, storeName) THEN <<"rejected", "NotFoundError">>
  ELSE IF requestFails THEN <<"rejected", "request error">>
  ELSE <<"resolved", "result">>

\* get: the catch block covers the await of openDatabase; the promise of
\* the request is returned as it is
get(storeName, opens, requestFails) ==
  IF openDatabase(opens) = "rejected" THEN <<"resolved", "undefined">>
  ELSE RequestOutcome(storeName, requestFails)

\* set, delete: nothing is caught
Write(storeName, opens, requestFails) ==
  IF openDatabase(opens) = "rejected" THEN <<"rejected", "open failed">>
  ELSE RequestOutcome(storeName, requestFails)

\* a value for each store, and what a store holds once its key is deleted
ValueFor(storeName) ==
  IF storeName = "handles" THEN "folder"
  ELSE IF storeName = "preferences"
  THEN [present |-> TRUE, microphoneEnabled |-> TRUE, cameraEnabled |-> TRUE]
  ELSE StoredSelection(NullKey, NullKey, NullId, NullId)

Deleted(storeName) ==
  IF storeName = "handles" THEN "none"
  ELSE IF storeName = "preferences" THEN NoPreferences
  ELSE NoSelection

DbFrame(op, storeName, result) ==
  /\ UNCHANGED <<sessionVars, selectionVars, attachVars, streams, inFlight,
                 playbackVars, listingVars, folderVars>>
  /\ GhostOf(Tag("db", op), <<storeName>> \o result, {}, <<>>, Kept)

DbGetCall(storeName, opens, requestFails) ==
  /\ dbPromise' = openDatabase(opens)
  /\ UNCHANGED kvStore
  /\ DbFrame("get", storeName, get(storeName, opens, requestFails))

DbSetCall(storeName, opens, requestFails) ==
  /\ dbPromise' = openDatabase(opens)
  /\ kvStore' = IF Write(storeName, opens, requestFails)[1] = "resolved"
                THEN DbSet(kvStore, storeName, ValueFor(storeName))
                ELSE kvStore
  /\ DbFrame("set", storeName, Write(storeName, opens, requestFails))

DbDeleteCall(storeName, opens, requestFails) ==
  /\ dbPromise' = openDatabase(opens)
  /\ kvStore' = IF Write(storeName, opens, requestFails)[1] = "resolved"
                THEN DbSet(kvStore, storeName, Deleted(storeName))
                ELSE kvStore
  /\ DbFrame("delete", storeName, Write(storeName, opens, requestFails))

DbInit ==
  /\ AppLoaded
  /\ folderEntries = <<>>
  /\ dbPromise = "null"
  /\ observe = "db"

DbNext ==
  \/ \E storeName \in StoreNames, opens \in BOOLEAN, requestFails \in BOOLEAN :
       DbGetCall(storeName, opens, requestFails)
  \/ \E storeName \in StoreNames, opens \in BOOLEAN, requestFails \in BOOLEAN :
       DbSetCall(storeName, opens, requestFails)
  \/ \E storeName \in StoreNames, opens \in BOOLEAN, requestFails \in BOOLEAN :
       DbDeleteCall(storeName, opens, requestFails)

DbSpec == DbInit /\ [][DbNext]_vars

(***************************************************************************)
(* HomeComponent: the playback of a recording.  onPlayRecording is cut at  *)
(* its two awaits; several calls can be in flight, each in a slot of       *)
(* `plays`.  The platform keeps the object URLs created and not revoked.   *)
(***************************************************************************)
Recordings == {"a.webm", "b.webm"}

\* clearPlaybackUrlOnly: the URLs left once the held one is revoked
clearPlaybackUrlOnly(urls, active) ==
  IF active # NoUrl THEN urls \ {active} ELSE urls

\* the message of the error readRecordingFile rejects with
ReadRecordingFileError ==
  IF folderHandle = "none" THEN "No folder selected"
  ELSE IF folderPermissionState # "granted" THEN "Permission not granted"
  ELSE "Recording file could not be read"

HomeFrame(op) ==
  /\ UNCHANGED <<sessionVars, selectionVars, attachVars, folderVars,
                 asyncVars, dbPromise, listingVars, streams>>
  /\ GhostOf(Tag("home", op), NoArg, {}, <<>>, Kept)

\* onPlayRecording up to its await of readRecordingFile
OnPlayRecording(i, recording) ==
  /\ ~destroyed
  /\ plays[i] = NoPlay
  /\ playbackLoading' = TRUE
  /\ playbackError' = NullMsg
  /\ objectUrls' = clearPlaybackUrlOnly(objectUrls, activePlaybackObjectUrl)
  /\ activePlaybackObjectUrl' = NoUrl
  /\ playbackUrl' = NoUrl
  /\ plays' = [plays EXCEPT ![i] = [at |-> "readRecordingFile",
                                    recording |-> recording]]
  /\ UNCHANGED <<selectedRecording, destroyed, urlsCreated>>
  /\ HomeFrame("onPlayRecording")

\* the file was read: an object URL is created for it and becomes current
ReadRecordingResolve(i) ==
  /\ plays[i].at = "readRecordingFile"
  /\ folderHandle # "none"
  /\ folderPermissionState = "granted"
  /\ urlsCreated < MaxUrls
  /\ urlsCreated' = urlsCreated + 1
  /\ objectUrls' = objectUrls \cup {urlsCreated'}
  /\ activePlaybackObjectUrl' = urlsCreated'
  /\ playbackUrl' = urlsCreated'
  /\ selectedRecording' = plays[i].recording
  /\ playbackLoading' = FALSE
  /\ plays' = [plays EXCEPT ![i] = NoPlay]
  /\ UNCHANGED <<playbackError, destroyed>>
  /\ HomeFrame("readRecordingFile resolved")

\* the read failed: the catch block, up to its await of refreshRecordings
ReadRecordingReject(i) ==
  /\ plays[i].at = "readRecordingFile"
  /\ selectedRecording' = NoRecording
  /\ playbackError' = ReadRecordingFileError
  /\ plays' = [plays EXCEPT ![i].at = "refreshRecordings"]
  /\ UNCHANGED <<activePlaybackObjectUrl, playbackUrl, playbackLoading,
                 destroyed, objectUrls, urlsCreated>>
  /\ HomeFrame("readRecordingFile rejected")

\* refreshRecordings settled: the finally block
PlayRefreshSettle(i) ==
  /\ plays[i].at = "refreshRecordings"
  /\ playbackLoading' = FALSE
  /\ plays' = [plays EXCEPT ![i] = NoPlay]
  /\ UNCHANGED <<activePlaybackObjectUrl, playbackUrl, selectedRecording,
                 playbackError, destroyed, objectUrls, urlsCreated>>
  /\ HomeFrame("refreshRecordings settled")

\* ngOnDestroy: clearPlayback
NgOnDestroy ==
  /\ ~destroyed
  /\ destroyed' = TRUE
  /\ objectUrls' = clearPlaybackUrlOnly(objectUrls, activePlaybackObjectUrl)
  /\ activePlaybackObjectUrl' = NoUrl
  /\ playbackUrl' = NoUrl
  /\ selectedRecording' = NoRecording
  /\ playbackError' = NullMsg
  /\ playbackLoading' = FALSE
  /\ UNCHANGED <<plays, urlsCreated>>
  /\ HomeFrame("ngOnDestroy")

PlaybackInit == AppStarted /\ observe = "home"

PlaybackNext ==
  \/ \E i \in 1..MaxPlays, recording \in Recordings :
       OnPlayRecording(i, recording)
  \/ \E i \in 1..MaxPlays : ReadRecordingResolve(i)
  \/ \E i \in 1..MaxPlays : ReadRecordingReject(i)
  \/ \E i \in 1..MaxPlays : PlayRefreshSettle(i)
  \/ NgOnDestroy

PlaybackSpec == PlaybackInit /\ [][PlaybackNext]_vars

(***************************************************************************)
(* The second specification: the events an awaiting stopRecording waits    *)
(* for do arrive.  A recorder told to stop fires stop or error; the        *)
(* promises of saveRecording and refreshRecordings settle.                 *)
(***************************************************************************)
RecorderSettles == pc = "awaitRecorder" /\ (RecorderStop \/ RecorderError)

FairSpec ==
  /\ Spec
  /\ WF_vars(RecorderSettles)
  /\ WF_vars(SaveResolve \/ SaveReject)
  /\ WF_vars(RefreshSettle)

(***************************************************************************)
(* Properties of the recording session.                                    *)
(***************************************************************************)
\* the session holds no stream, no composed stream, no recorder, the
\* registry holds no track, and no track obtained from the platform is live
OwnsNothing ==
  /\ screenStream = NoStream
  /\ deviceStream = NoStream
  /\ recordingStream = NullRecordingStream
  /\ mediaRecorder = NoRecorder
  /\ activeMicrophoneTrack = NullTrack
  /\ activeCameraTrack = NullTrack
  /\ LiveTracks(streams) = {}

\* C1: in every reachable state where recordingStatus is idle or error the
\* session owns nothing: the four references are null, every track the
\* session acquired is stopped, and the registry's attachment is null.
C1_OwnsNothingAtRest ==
  recordingStatus \in {"idle", "error"} => OwnsNothing

\* the status edges a step takes: _recordingStatus before the step, then
\* each value the step wrote, in order
WriteEdges(from, sw) ==
  {<<IF i = 1 THEN from ELSE sw[i - 1], sw[i]>> : i \in 1..Len(sw)}

StatusAfter(from, sw) == IF sw = <<>> THEN from ELSE sw[Len(sw)]

EdgesOfSpec ==
  {<<"idle", "starting">>, <<"starting", "recording">>,
   <<"recording", "stopping">>, <<"stopping", "idle">>,
   <<"starting", "error">>, <<"stopping", "error">>,
   <<"error", "idle">>, <<"starting", "idle">>}

EdgesKept(allowed) ==
  /\ recordingStatus' = StatusAfter(recordingStatus, statusWrites')
  /\ WriteEdges(recordingStatus, statusWrites') \subseteq allowed
  /\ <<"error", "idle">> \in WriteEdges(recordingStatus, statusWrites')
       => lastOp' = "clearError"
  /\ <<"starting", "idle">> \in WriteEdges(recordingStatus, statusWrites')
       => lastOp' = "getDisplayMedia canceled"
  /\ <<"recording", "error">> \in WriteEdges(recordingStatus, statusWrites')
       => lastOp' = "recorder error"

\* C2 as stated: recordingStatus changes only along idle->starting,
\* starting->recording, recording->stopping, stopping->idle, starting->error,
\* stopping->error, error->idle (by clearError only) and starting->idle (on
\* picker cancel); never from recording directly to error.
C2_EdgesAsStated == [][EdgesKept(EdgesOfSpec)]_vars

\* C2, amended: recordingStatus changes only along the edges above and along
\* recording->error, which only the recorder's error event takes; error is
\* left only through clearError.
C2_EdgesWithEncoderFault ==
  [][EdgesKept(EdgesOfSpec \cup {<<"recording", "error">>})]_vars

\* an encoder fault moved the status from recording to error
C2_FaultWhileRecording ==
  /\ lastOp = "recorder error"
  /\ statusWrites = <<"error">>
  /\ recordingStatus = "error"
  /\ errorMessage = MsgRecordingFailed

\* the streams of a kind with a track that is not stopped
Unreleased(h, kind) ==
  {i \in StreamIds : h[i].kind = kind /\ TracksOf(h, i) \cap LiveTracks(h) # {}}

\* a reference moved to another stream while a track of the old one is live
Overwritten(ref, h) ==
  /\ ref # NoStream
  /\ ref' # NoStream
  /\ ref' # ref
  /\ TracksOf(h, ref) \cap LiveTracks(h) # {}

\* C3: at every state at most one screen stream and at most one device
\* stream acquired by the session is unreleased, at most one encoder is
\* active, and no stream reference is overwritten by a new acquisition
\* while its tracks are still live.
C3_AtMostOneOfEach ==
  [][/\ Cardinality(Unreleased(streams', "screen")) <= 1
     /\ Cardinality(Unreleased(streams', "device")) <= 1
     /\ ~Overwritten(screenStream, streams)
     /\ ~Overwritten(deviceStream, streams)]_vars

\* C4: startRecording invoked while recordingStatus is not idle changes
\* neither the status, the messages, the stream and recorder references nor
\* the chunk buffer, touches no track, leaves a suspended call where it
\* was, and makes no platform capture call.
C4_StartIgnoredUnlessIdle ==
  [][(lastOp' = "startRecording" /\ recordingStatus # "idle")
       => /\ UNCHANGED <<sessionVars, attachVars, streams>>
          /\ calls' = {}
          /\ statusWrites' = <<>>]_vars

\* a startRecording was ignored while another was waiting for the picker
C4_SecondStartIgnored ==
  /\ lastOp = "startRecording"
  /\ calls = {}
  /\ recordingStatus = "starting"
  /\ pc = "awaitDisplayMedia"

\* C5: stopRecording invoked while recordingStatus is not recording changes
\* neither the status, the messages, the references nor the chunk buffer,
\* stops no track, and calls neither saveRecording nor refreshRecordings.
C5_StopIgnoredUnlessRecording ==
  [][(lastOp' = "stopRecording" /\ recordingStatus # "recording")
       => /\ UNCHANGED <<sessionVars, attachVars>>
          /\ LiveTracks(streams') = LiveTracks(streams)
          /\ calls' = {}
          /\ statusWrites' = <<>>]_vars

\* a stopRecording was ignored while a faulted session still held its
\* recorder and live tracks
C5_StopIgnoredAfterFault ==
  /\ lastOp = "stopRecording"
  /\ calls = {}
  /\ recordingStatus = "error"
  /\ mediaRecorder # NoRecorder
  /\ LiveTracks(streams) # {}

\* the steps in which an awaiting stopRecording resumes and returns
StopSucceeded ==
  \/ lastOp' = "recorder stop" /\ ~BlobNonEmpty(chunks)
  \/ lastOp' \in {"saveRecording resolved", "refreshRecordings settled"}

StopFailed ==
  \/ lastOp' = "recorder error"
  \/ lastOp' = "saveRecording rejected"
  \/ lastOp' = "recorder stop" /\ BlobNonEmpty(chunks) /\ SaveCheck # "ok"

\* cleanupSession has run on what the session held before the step
TornDown ==
  /\ screenStream' = NoStream
  /\ deviceStream' = NoStream
  /\ recordingStream' = NullRecordingStream
  /\ mediaRecorder' = NoRecorder
  /\ chunks' = <<>>
  /\ activeMicrophoneTrack' = NullTrack
  /\ activeCameraTrack' = NullTrack
  /\ CleanupTracks(streams, recordingStream, deviceStream, screenStream)
       \cap LiveTracks(streams') = {}

\* C6: once stopRecording has moved the status to stopping, the status
\* eventually becomes idle or error and does not remain stopping; it leaves
\* stopping in the step in which stopRecording returns, to idle when
\* finalize and save succeeded and to error when either failed, and in both
\* cases with the full teardown done.
C6_StoppingSettles ==
  /\ (recordingStatus = "stopping") ~> (recordingStatus \in {"idle", "error"})
  /\ [][(recordingStatus = "stopping" /\ recordingStatus' # "stopping")
          => /\ pc' = "none"
             /\ TornDown
             /\ StopSucceeded => recordingStatus' = "idle"
             /\ StopFailed => recordingStatus' = "error"
             /\ StopSucceeded \/ StopFailed]_vars

\* a stop whose save was rejected ended in error with everything released
C6_SaveFailedTornDown ==
  /\ lastOp = "saveRecording rejected"
  /\ recordingStatus = "error"
  /\ errorMessage = MsgSaveFailed
  /\ OwnsNothing

\* the steps that belong to a running startRecording call
StartSteps ==
  {"startRecording", "getDisplayMedia resolved", "getDisplayMedia rejected",
   "getUserMedia resolved", "getUserMedia rejected"}

\* a startRecording call that got past its guard returns in this step
\* without having started the recorder: one of its steps failed
StartFailed ==
  /\ lastOp' \in StartSteps
  /\ recordingStatus = "idle" \/ pc \in {"awaitDisplayMedia", "awaitUserMedia"}
  /\ pc' = "none"
  /\ recordingStatus' # "recording"

\* C7: when a step of startRecording fails, then at its return every stream
\* acquired in that call has all its tracks stopped, all session references
\* are null, the registry's attachment is cleared, the status is error and
\* errorMessage is non-null.
C7_FailedStartReleases ==
  [][StartFailed
       => /\ \A id \in acquired' : TracksOf(streams', id) \cap LiveTracks(streams') = {}
          /\ screenStream' = NoStream
          /\ deviceStream' = NoStream
          /\ recordingStream' = NullRecordingStream
          /\ mediaRecorder' = NoRecorder
          /\ activeMicrophoneTrack' = NullTrack
          /\ activeCameraTrack' = NullTrack
          /\ recordingStatus' = "error"
          /\ errorMessage' # NullMsg]_vars

\* the device capture was rejected after the screen stream was acquired
C7_DeviceRejectedAfterScreen ==
  /\ lastOp = "getUserMedia rejected"
  /\ acquired # {}
  /\ \E id \in acquired : streams[id].video = "ended"
  /\ recordingStatus = "error"

\* C8: when the screen picker is cancelled, startRecording ends with status
\* idle, statusMessage non-null, errorMessage null, getUserMedia not called,
\* no encoder, and no resource held.
C8_CancelLeavesIdleAndEmpty ==
  [][lastOp' = "getDisplayMedia canceled"
       => /\ recordingStatus' = "idle"
          /\ pc' = "none"
          /\ statusMessage' # NullMsg
          /\ errorMessage' = NullMsg
          /\ "getUserMedia" \notin calls'
          /\ "MediaRecorder" \notin calls'
          /\ OwnsNothing']_vars

\* C9: startRecording called in idle with screen sharing disabled, camera
\* not (enabled and selected) and microphone not (enabled and selected)
\* ends in error with the no-source message and makes no platform call.
C9_NoSourceIsError ==
  [][(/\ lastOp' = "startRecording"
      /\ recordingStatus = "idle"
      /\ ~screenSharingEnabled
      /\ ~(cameraEnabled /\ selectedCamera # NoDevice)
      /\ ~(microphoneEnabled /\ selectedMicrophone # NoDevice))
       => /\ recordingStatus' = "error"
          /\ errorMessage' = MsgNoSource
          /\ pc' = "none"
          /\ calls' = {}
          /\ LiveTracks(streams') \subseteq LiveTracks(streams)]_vars

\* a start with the microphone enabled but no microphone selected, and
\* nothing else enabled, ended in the no-source error
C9_EnabledButUnselected ==
  /\ lastOp = "startRecording"
  /\ recordingStatus = "error"
  /\ errorMessage = MsgNoSource
  /\ microphoneEnabled
  /\ selectedMicrophone = NoDevice

\* the tracks of a kind in the composed stream
Composed(rs, kind) == {t \in rs.tracks : t[2] = kind}

\* C10: when startRecording reaches recording the composed stream has at
\* most one video and at most one audio track; if screen sharing was
\* enabled the video track is the screen's, never the camera's, and no
\* camera video is requested from the platform.
C10_ComposedStream ==
  [][/\ (recordingStatus' = "recording" /\ recordingStatus = "starting")
          => /\ Cardinality(Composed(recordingStream', "video")) <= 1
             /\ Cardinality(Composed(recordingStream', "audio")) <= 1
             /\ intent.captureScreen
                  => /\ Composed(recordingStream', "video")
                          = {<<screenStream', "video">>}
                     /\ streams'[screenStream'].kind = "screen"
                     /\ pendingConstraints.video = <<"false">>
     /\ (pc' = "awaitUserMedia" /\ intent'.captureScreen)
          => pendingConstraints'.video = <<"false">>]_vars

\* recording was reached over the screen with a camera enabled and selected
C10_ScreenWinsOverCamera ==
  /\ recordingStatus = "recording"
  /\ lastOp = "getUserMedia resolved"
  /\ screenSharingEnabled
  /\ cameraEnabled
  /\ selectedCamera # NoDevice
  /\ Composed(recordingStream, "video") = {<<screenStream, "video">>}
  /\ Composed(recordingStream, "audio") = {<<deviceStream, "audio">>}

(***************************************************************************)
(* C11.  A stopRecording whose recorder delivers its final blob calls      *)
(* saveRecording exactly when that blob is non-empty, once, with the blob  *)
(* and a name recording-<timestamp>.webm whose timestamp has no ':' or     *)
(* '.'; it calls refreshRecordings exactly when that save has resolved,    *)
(* once; a failed save ends the call without a refresh, and an empty final *)
(* blob ends it with neither call.                                         *)
(***************************************************************************)
IsRecordingFilename(name) ==
  /\ Len(name) >= 3
  /\ name[1] = "recording-"
  /\ name[Len(name)] = ".webm"
  /\ \A i \in 2..(Len(name) - 1) : name[i] \notin {":", "."}
  /\ \E now \in Timestamps :
       /\ Len(now) = Len(name) - 2
       /\ \A i \in 1..Len(now) :
            now[i] \notin {":", "."} => name[i + 1] = now[i]

C11_SaveOnceThenRefreshOnce ==
  [][/\ ("saveRecording" \in calls') <=>
          (pc = "awaitRecorder" /\ lastOp' = "recorder stop"
           /\ Len(chunks) > 0)
     /\ "saveRecording" \in calls' =>
          /\ saved'.blob = chunks
          /\ Len(saved'.blob) > 0
          /\ IsRecordingFilename(saved'.filename)
     /\ ("refreshRecordings" \in calls') <=>
          (pc = "awaitSave" /\ lastOp' = "saveRecording resolved")
     /\ (pc' = "awaitSave" /\ pc # "awaitSave") => "saveRecording" \in calls'
     /\ (pc' = "awaitRefresh" /\ pc # "awaitRefresh") =>
          "refreshRecordings" \in calls'
     /\ pc = "awaitSave" => pc' \in {"awaitSave", "awaitRefresh", "none"}
     /\ pc = "awaitRefresh" => pc' \in {"awaitRefresh", "none"}
     /\ lastOp' = "saveRecording rejected" =>
          (pc = "awaitSave" /\ pc' = "none" /\ calls' = {})
     /\ (lastOp' = "recorder stop" /\ Len(chunks) = 0) =>
          (pc' = "none" /\ calls' = {})]_vars

\* a recording was saved, the list refreshed, and the session is idle again
C11_SavedAndRefreshed ==
  /\ lastOp = "refreshRecordings settled"
  /\ recordingStatus = "idle"
  /\ pc = "none"

(***************************************************************************)
(* C12.  When a screen video track ends while the status is recording, the *)
(* handler runs stopRecording: the status becomes stopping and the         *)
(* recorder is told to stop, and from there the status reaches idle or     *)
(* error.  When it ends in any other status the handler changes nothing of *)
(* the session and calls nothing.                                          *)
(***************************************************************************)
C12_ScreenEndStopsRecording ==
  /\ [][lastOp' = "track ended" =>
          IF recordingStatus = "recording"
          THEN /\ recordingStatus' = "stopping"
               /\ pc' = "awaitRecorder"
               /\ "MediaRecorder.stop" \in calls'
          ELSE /\ UNCHANGED sessionVars
               /\ calls' = {}]_vars
  /\ (lastOp = "track ended" /\ recordingStatus = "stopping")
       ~> (recordingStatus \in {"idle", "error"})

\* the share of the session being recorded was stopped from the browser
C12_ShareStoppedWhileRecording ==
  /\ lastOp = "track ended"
  /\ recordingStatus = "stopping"
  /\ screenStream # NoStream
  /\ streams[screenStream].video = "ended"

(***************************************************************************)
(* C13.  A microphone or camera toggle made while the status is recording  *)
(* leaves the status, the stream references, the composed stream, the      *)
(* recorder and the chunks as they are, calls nothing of the platform,     *)
(* ends or adds no track, and leaves each attached live track with an      *)
(* enabled flag equal to the toggle of its kind.                           *)
(***************************************************************************)
SameTracks(h1, h2) ==
  \A i \in StreamIds :
    /\ h1[i].kind = h2[i].kind
    /\ h1[i].video = h2[i].video
    /\ h1[i].audio = h2[i].audio

C13_ToggleWhileRecording ==
  [][(lastOp' = "registry" /\ recordingStatus = "recording") =>
       /\ UNCHANGED <<recordingStatus, screenStream, deviceStream,
                      recordingStream, mediaRecorder, chunks, attachVars>>
       /\ calls' = {}
       /\ SameTracks(streams, streams')
       /\ IsLive(streams, activeMicrophoneTrack) =>
            TrackEnabled(streams', activeMicrophoneTrack) = microphoneEnabled'
       /\ IsLive(streams, activeCameraTrack) =>
            TrackEnabled(streams', activeCameraTrack) = cameraEnabled']_vars

\* the microphone was muted during a recording that has a live microphone
C13_MutedWhileRecording ==
  /\ lastOp = "registry"
  /\ recordingStatus = "recording"
  /\ ~microphoneEnabled
  /\ IsLive(streams, activeMicrophoneTrack)
  /\ ~TrackEnabled(streams, activeMicrophoneTrack)

(***************************************************************************)
(* C14.  Enabling the camera (the microphone) while no camera (no          *)
(* microphone) is selected fails: only the registry's error message        *)
(* changes, so both flags, both keys, the permission state and the stored  *)
(* toggle preferences stay.  Disabling succeeds whatever is selected: the  *)
(* flag is false, the error cleared and the preferences stored.            *)
(***************************************************************************)
OnlyErrorMessageSet(msg) ==
  /\ mediaErrorMessage' = msg
  /\ UNCHANGED <<availableCameras, availableMicrophones, selectedCameraKey,
                 selectedMicrophoneKey, microphoneEnabled, cameraEnabled,
                 screenSharingEnabled, permissionState, attachVars, streams,
                 asyncVars, sessionVars, folderVars>>

StoredToggles(micOn, camOn) ==
  [present |-> TRUE, microphoneEnabled |-> micOn, cameraEnabled |-> camOn]

C14_EnableNeedsSelection ==
  [][/\ (lastOp' = "setCameraEnabled" /\ lastArg' = <<TRUE>>
         /\ selectedCameraKey = NullKey)
          => OnlyErrorMessageSet(MsgSelectCamera)
     /\ (lastOp' = "setMicrophoneEnabled" /\ lastArg' = <<TRUE>>
         /\ selectedMicrophoneKey = NullKey)
          => OnlyErrorMessageSet(MsgSelectMicrophone)
     /\ (lastOp' = "setCameraEnabled" /\ lastArg' = <<FALSE>>)
          => /\ ~cameraEnabled'
             /\ mediaErrorMessage' = NullMsg
             /\ kvStore'["preferences"] =
                  StoredToggles(microphoneEnabled, FALSE)
     /\ (lastOp' = "setMicrophoneEnabled" /\ lastArg' = <<FALSE>>)
          => /\ ~microphoneEnabled'
             /\ mediaErrorMessage' = NullMsg
             /\ kvStore'["preferences"] =
                  StoredToggles(FALSE, cameraEnabled)]_vars

\* the camera was switched on with no camera selected, and stayed off
C14_CameraEnableRefused ==
  /\ lastOp = "setCameraEnabled"
  /\ lastArg = <<TRUE>>
  /\ selectedCameraKey = NullKey
  /\ ~cameraEnabled
  /\ mediaErrorMessage = MsgSelectCamera

(***************************************************************************)
(* C15.  selectCamera / selectMicrophone with a key that no device of the  *)
(* kind's current list carries sets the error message and changes nothing  *)
(* else; with a key of the list it sets the kind's key and clears the      *)
(* error.  Neither changes an enable flag or the other kind's key.         *)
(***************************************************************************)
SelectionAccepted(key, chosen, other) ==
  /\ chosen' = key
  /\ mediaErrorMessage' = NullMsg
  /\ UNCHANGED <<other, microphoneEnabled, cameraEnabled, availableCameras,
                 availableMicrophones>>

C15_SelectChecksTheList ==
  [][/\ lastOp' = "selectCamera" =>
          IF isSelectionAvailable(availableCameras, lastArg')
          THEN SelectionAccepted(lastArg', selectedCameraKey,
                                 selectedMicrophoneKey)
          ELSE OnlyErrorMessageSet(MsgCameraGone)
     /\ lastOp' = "selectMicrophone" =>
          IF isSelectionAvailable(availableMicrophones, lastArg')
          THEN SelectionAccepted(lastArg', selectedMicrophoneKey,
                                 selectedCameraKey)
          ELSE OnlyErrorMessageSet(MsgMicrophoneGone)]_vars

\* a microphone that is not in the list was asked for while another one is
\* listed and selected
C15_AbsentMicrophoneRefused ==
  /\ lastOp = "selectMicrophone"
  /\ ~isSelectionAvailable(availableMicrophones, lastArg)
  /\ mediaErrorMessage = MsgMicrophoneGone
  /\ selectedMicrophoneKey # NullKey
  /\ isSelectionAvailable(availableMicrophones, selectedMicrophoneKey)

(***************************************************************************)
(* C16.  When enumerateDevices resolves, each kind is validated on its     *)
(* own: a selected key that no device of the refreshed list carries is     *)
(* reset to null together with the kind's enable flag; otherwise the       *)
(* kind's key and flag stay as they are.                                   *)
(***************************************************************************)
ValidatedKind(devices, key, flag) ==
  IF key # NullKey /\ key \notin OfferedKeys(devices')
  THEN key' = NullKey /\ flag' = FALSE
  ELSE UNCHANGED <<key, flag>>

C16_EnumerationValidatesEachKind ==
  [][lastOp' = "enumerateDevices resolved" =>
       /\ ValidatedKind(availableCameras, selectedCameraKey, cameraEnabled)
       /\ ValidatedKind(availableMicrophones, selectedMicrophoneKey,
                        microphoneEnabled)]_vars

\* a refreshed list dropped the selected microphone and kept the selected
\* camera: the stored preferences still say the microphone was on
C16_MicrophoneResetCameraKept ==
  /\ lastOp = "enumerateDevices resolved"
  /\ selectedMicrophoneKey = NullKey
  /\ ~microphoneEnabled
  /\ kvStore["preferences"] = StoredToggles(TRUE, TRUE)
  /\ selectedCameraKey # NullKey
  /\ cameraEnabled

C18_PromptImpliesEnabledInput ==
  permissionState = "prompt" =>
    HasEnabledInput(microphoneEnabled, selectedMicrophoneKey, cameraEnabled,
                    selectedCameraKey)

(***************************************************************************)
(* C19.  Once the permission state is granted or denied, a step changes it *)
(* only if it is the settling of requestPermission or the reset clear():   *)
(* no selection, toggle, enumeration or load changes it.                   *)
(***************************************************************************)
Answered == permissionState \in {"granted", "denied"}

PermissionSettling == {"getUserMedia resolved", "getUserMedia rejected"}

C19_AnswerKeptButForRequestAndClear ==
  [][(Answered /\ permissionState' # permissionState) =>
       lastOp' \in PermissionSettling \cup {"clear"}]_vars

\* C19 as stated: once the permission state is granted or denied, only
\* requestPermission changes it.
C19_AnswerKeptButForRequest ==
  [][(Answered /\ permissionState' # permissionState) =>
       lastOp' \in PermissionSettling]_vars

\* the only enabled input was switched off after the user had granted the
\* permission, and the answer is still there
C19_GrantedSurvivesDisable ==
  /\ permissionState = "granted"
  /\ lastOp = "setMicrophoneEnabled"
  /\ lastArg = <<FALSE>>
  /\ ~HasEnabledInput(microphoneEnabled, selectedMicrophoneKey, cameraEnabled,
                      selectedCameraKey)

(***************************************************************************)
(* C20.  requestPermission called while no kind is both enabled and        *)
(* selected sets the error message 'Enable a selected microphone or camera *)
(* first' and does nothing else: no getUserMedia call, no request left in  *)
(* flight, permission state, keys and flags as they were.                  *)
(***************************************************************************)
C20_RequestNeedsEnabledInput ==
  [][(lastOp' = "requestPermission"
      /\ ~HasEnabledInput(microphoneEnabled, selectedMicrophoneKey,
                          cameraEnabled, selectedCameraKey)) =>
       /\ OnlyErrorMessageSet(MsgEnableFirst)
       /\ calls' = {}]_vars

\* the permission was asked for with the microphone on but not selected
C20_RequestRefused ==
  /\ lastOp = "requestPermission"
  /\ mediaErrorMessage = MsgEnableFirst
  /\ calls = {}
  /\ microphoneEnabled
  /\ selectedMicrophoneKey = NullKey
  /\ "requestPermission" \notin inFlight

(***************************************************************************)
(* C21.  The probe of requestPermission: when getUserMedia resolves, the   *)
(* state becomes granted and no track of the probe stream is left live;    *)
(* when it rejects with NotAllowedError the state becomes denied; when it  *)
(* rejects otherwise the step changes the error message and nothing else   *)
(* of the registry.  No step of requestPermission changes the registry's   *)
(* attached tracks or the recording session, and the steps before the      *)
(* settling leave the permission state alone.                              *)
(***************************************************************************)
ProbeTouchesNoSession == UNCHANGED <<attachVars, sessionVars>>

C21_ProbeOutcomes ==
  [][/\ lastOp' = "requestPermission" =>
          /\ ProbeTouchesNoSession
          /\ UNCHANGED <<permissionState, streams>>
     /\ lastOp' = "getUserMedia resolved" =>
          /\ ProbeTouchesNoSession
          /\ permissionState' = "granted"
          /\ LiveTracks(streams') \subseteq LiveTracks(streams)
     /\ lastOp' = "getUserMedia rejected" =>
          /\ ProbeTouchesNoSession
          /\ mediaErrorMessage' # NullMsg
          /\ UNCHANGED <<availableCameras, availableMicrophones,
                         selectedCameraKey, selectedMicrophoneKey,
                         microphoneEnabled, cameraEnabled, streams, kvStore>>
          /\ IF lastArg' = <<"NotAllowedError">>
             THEN permissionState' = "denied"
             ELSE UNCHANGED permissionState]_vars

\* the probe succeeded: granted, and nothing of it is still capturing
C21_ProbeGranted ==
  /\ lastOp = "getUserMedia resolved"
  /\ permissionState = "granted"
  /\ LiveTracks(streams) = {}
  /\ activeMicrophoneTrack = NullTrack
  /\ activeCameraTrack = NullTrack

(***************************************************************************)
(* C22.  When the platform's enumeration call rejects, enumerateDevices    *)
(* sets the error message, is no longer enumerating, and leaves both       *)
(* lists, both keys, both flags and the permission state as they were; the *)
(* part of the call before the await leaves them alone as well.            *)
(***************************************************************************)
RegistryChoicesKept ==
  UNCHANGED <<availableCameras, availableMicrophones, selectedCameraKey,
              selectedMicrophoneKey, microphoneEnabled, cameraEnabled,
              permissionState>>

C22_EnumerationFailsSoft ==
  [][/\ lastOp' = "enumerateDevices" => RegistryChoicesKept
     /\ lastOp' = "enumerateDevices rejected" =>
          /\ RegistryChoicesKept
          /\ mediaErrorMessage' # NullMsg
          /\ "enumerateDevices" \notin inFlight']_vars

\* a later enumeration failed and the devices listed and selected before it
\* are still there
C22_FailedWithListsKept ==
  /\ lastOp = "enumerateDevices rejected"
  /\ mediaErrorMessage # NullMsg
  /\ selectedMicrophoneKey \in OfferedKeys(availableMicrophones)
  /\ availableCameras # <<>>
  /\ "enumerateDevices" \notin inFlight

(***************************************************************************)
(* C23.  In the lists an enumeration leaves, the selection keys of the     *)
(* cameras are pairwise different and so are those of the microphones.     *)
(***************************************************************************)
KeysDistinct(devices) ==
  \A i \in 1..Len(devices), j \in 1..Len(devices) :
    i # j => devices[i].selectionKey # devices[j].selectionKey

C23_KeysDistinctWithinKind ==
  /\ KeysDistinct(availableCameras)
  /\ KeysDistinct(availableMicrophones)

\* two cameras without an id, of the same group and label, are listed
C23_TwoAnonymousCameras ==
  /\ Len(availableCameras) = 2
  /\ Trim(availableCameras[1].deviceId) = ""
  /\ Trim(availableCameras[2].deviceId) = ""
  /\ availableCameras[1].groupId = availableCameras[2].groupId
  /\ availableCameras[1].label = "Cam"
  /\ availableCameras[2].label = "Cam"

(***************************************************************************)
(* C24.  A device with a non-empty id keeps its selection key from one     *)
(* enumeration to the next, wherever it stands in the two lists and        *)
(* whatever else is listed, and a selection of it is still in place after  *)
(* the second enumeration.                                                 *)
(***************************************************************************)
KeyStable(devices, selected) ==
  \A i \in 1..Len(devices), j \in 1..Len(devices') :
    (Trim(devices[i].deviceId) # ""
     /\ devices'[j].deviceId = devices[i].deviceId) =>
      /\ devices'[j].selectionKey = devices[i].selectionKey
      /\ selected = devices[i].selectionKey => selected' = selected

C24_IdKeysSurviveReenumeration ==
  [][lastOp' = "enumerateDevices resolved" =>
       /\ KeyStable(availableCameras, selectedCameraKey)
       /\ KeyStable(availableMicrophones, selectedMicrophoneKey)]_vars

\* after an enumeration the selected camera is the second of two listed
\* cameras, behind a camera without an id
C24_SelectionKeptAtNewPosition ==
  /\ lastOp = "enumerateDevices resolved"
  /\ Len(availableCameras) = 2
  /\ Trim(availableCameras[1].deviceId) = ""
  /\ Trim(availableCameras[2].deviceId) # ""
  /\ selectedCameraKey = availableCameras[2].selectionKey

(***************************************************************************)
(* C25.  A stored selection without keys is resolved per kind from its raw *)
(* id when the load settles: no id gives null, a non-empty id gives        *)
(* <kind>:id:<id>, an empty id gives the key of the first listed device of *)
(* the kind without an id, or null if there is none.  And the order in     *)
(* which the load and the initial enumeration finish does not matter: once *)
(* both are over, a kind stored with an empty id has the key of the first  *)
(* device without an id of the enumerated list, or null if the list has    *)
(* none.                                                                   *)
(***************************************************************************)
AnonymousPositions(devices) ==
  {i \in 1..Len(devices) : Trim(devices[i].deviceId) = ""}

FirstAnonymousKey(devices) ==
  IF AnonymousPositions(devices) = {} THEN NullKey
  ELSE devices[CHOOSE i \in AnonymousPositions(devices) :
                 \A j \in AnonymousPositions(devices) : i <= j].selectionKey

LegacyResolved(key, legacyDeviceId, kind, devices) ==
  IF legacyDeviceId = NullId THEN key = NullKey
  ELSE IF legacyDeviceId # "" THEN key = <<kind, "id", legacyDeviceId>>
  ELSE key = FirstAnonymousKey(devices)

InitializationOver ==
  inFlight \cap {"enumerateDevices", "loadDeviceSelection"} = {}

C26_ClearErrorIsTheWayOut ==
  [][/\ lastOp' = "clearError" =>
          IF recordingStatus = "error"
          THEN /\ recordingStatus' = "idle"
               /\ errorMessage' = NullMsg
               /\ statusMessage' = NullMsg
          ELSE UNCHANGED <<recordingStatus, screenStream, deviceStream,
                           recordingStream, mediaRecorder, chunks, attachVars,
                           streams>>
     /\ (recordingStatus = "error" /\ recordingStatus' # "error") =>
          lastOp' = "clearError"
     /\ (lastOp' = "startRecording" /\ recordingStatus = "error") =>
          UNCHANGED sessionVars]_vars

\* an error was dismissed: the status was written idle and no message is
\* left
C26_ErrorDismissed ==
  /\ lastOp = "clearError"
  /\ statusWrites = <<"idle">>
  /\ recordingStatus = "idle"
  /\ errorMessage = NullMsg
  /\ statusMessage = NullMsg

(***************************************************************************)
(* C27.  From every reachable state, cleanupSession leaves every stream    *)
(* reference null, the recorder null, the chunk buffer empty and no track  *)
(* attached to the registry; run again on its own result it returns that   *)
(* result unchanged and finds no track to stop.                            *)
(***************************************************************************)
CleanedOnce == cleanupSession(streams, recordingStream, deviceStream, screenStream)

CleanedTwice ==
  cleanupSession(CleanedOnce.heap, CleanedOnce.recordingStream,
                 CleanedOnce.deviceStream, CleanedOnce.screenStream)

C27_CleanupIdempotent ==
  /\ CleanedOnce.screenStream = NoStream
  /\ CleanedOnce.deviceStream = NoStream
  /\ CleanedOnce.recordingStream = NullRecordingStream
  /\ CleanedOnce.mediaRecorder = NoRecorder
  /\ CleanedOnce.chunks = <<>>
  /\ CleanedOnce.mic = NullTrack
  /\ CleanedOnce.cam = NullTrack
  /\ CleanedTwice = CleanedOnce
  /\ CleanupTracks(CleanedOnce.heap, CleanedOnce.recordingStream,
                   CleanedOnce.deviceStream, CleanedOnce.screenStream) = {}

\* a recording with a screen and a device stream whose tracks the first
\* teardown ends
C27_TeardownHasWork ==
  /\ recordingStatus = "recording"
  /\ screenStream # NoStream
  /\ deviceStream # NoStream
  /\ CleanedOnce.heap # streams

(***************************************************************************)
(* C28.  In every reachable state of the playback at most one object URL   *)
(* is created and not revoked, a URL that becomes current leaves the       *)
(* earlier current one revoked, also when a second onPlayRecording starts  *)
(* while the first awaits its file, and once the view is destroyed no      *)
(* object URL is left unrevoked.                                           *)
(***************************************************************************)
C28_AtMostOneUnreleasedUrl ==
  /\ Cardinality(objectUrls) <= 1
  /\ destroyed => objectUrls = {}

(***************************************************************************)
(* C29.  When the page is reloaded after a camera and a microphone were    *)
(* selected and saved, and the new initialization has enumerated the same  *)
(* devices and settled its load of the selection, the selected camera and  *)
(* microphone keys are those of the visit before.                          *)
(***************************************************************************)
C29_SelectionsRestoredAfterReload ==
  (/\ previousSession # NoArg
   /\ previousSession[1] # NullKey
   /\ previousSession[2] # NullKey
   /\ InitializationOver
   /\ availableCameras # <<>>
   /\ availableMicrophones # <<>>)
  => /\ selectedCameraKey = previousSession[1]
     /\ selectedMicrophoneKey = previousSession[2]

(***************************************************************************)
(* C30.  Every error event of a started recorder leaves recordingStatus    *)
(* error and errorMessage non-null, whatever the status was before; when   *)
(* it fires while stopRecording waits for the recorder, that call is over  *)
(* after the step, in error.                                               *)
(***************************************************************************)
C30_EncoderFaultForcesError ==
  [][lastOp' = "recorder error" =>
       /\ recordingStatus' = "error"
       /\ errorMessage' # NullMsg
       /\ "error" \in {statusWrites'[i] : i \in 1..Len(statusWrites')}
       /\ pc = "awaitRecorder" =>
            /\ pc' = "none"
            /\ errorMessage' = MsgRecorderStopFailed]_vars

\* the recorder failed in the middle of a recording
C30_FaultWhileRecording ==
  /\ lastOp = "recorder error"
  /\ recordingStatus = "error"
  /\ errorMessage = MsgRecordingFailed
  /\ statusWrites = <<"error">>

(***************************************************************************)
(* C31.  The blob the recorder's stop event delivers, and the blob handed  *)
(* to saveRecording, is the sequence of the non-empty chunks this          *)
(* session's recorder emitted, in the order of emission, the chunks        *)
(* emitted after stop() was called included; and as long as a recorder     *)
(* exists the chunk buffer holds exactly the non-empty chunks it emitted.  *)
(***************************************************************************)
C31_BlobIsTheEmittedChunks ==
  /\ [][lastOp' = "recorder stop" =>
          /\ chunks = mediaRecorder.nonEmpty
          /\ "saveRecording" \in calls' =>
               saved'.blob = mediaRecorder.nonEmpty]_vars
  /\ [](mediaRecorder # NoRecorder => chunks = mediaRecorder.nonEmpty)

\* a recording of three chunks whose second was empty is handed to
\* saveRecording
C31_SavedWithAGap ==
  /\ lastOp = "recorder stop"
  /\ "saveRecording" \in calls
  /\ saved.blob = <<1, 3>>

(***************************************************************************)
(* C32.  A refreshRecordings that finds no handle or no granted permission *)
(* empties the list and clears the listing error; one that lists the       *)
(* folder sets the list to exactly the files whose name has an extension   *)
(* that is, in lower case, one of the nine supported ones, newest first;   *)
(* one whose listing fails empties the list and sets the listing error.    *)
(* In each case recordingsLoading is false when the call is over.          *)
(***************************************************************************)
\* the part after the last dot of a name that has a dot is a supported one
HasRecordingExtension(name) ==
  Len(name) >= 2 /\ Lower(name[Len(name)]) \in supportedExtensions

RecordingFilesOf(es) ==
  {[name |-> es[i].name, lastModified |-> es[i].lastModified] :
     i \in {k \in 1..Len(es) :
              es[k].kind = "file" /\ HasRecordingExtension(es[k].name)}}

NewestFirst(rs) ==
  \A i \in 1..Len(rs), k \in 1..Len(rs) :
    i < k => rs[i].lastModified >= rs[k].lastModified

C32_RefreshListsTheRecordings ==
  [][/\ (lastOp' = "refreshRecordings" /\ ~FolderReady) =>
          /\ recordings' = <<>>
          /\ recordingsError' = NullMsg
          /\ recordingsLoading' = FALSE
     /\ lastOp' = "refreshRecordings listed" =>
          /\ {recordings'[i] : i \in 1..Len(recordings')} =
               RecordingFilesOf(folderEntries)
          /\ Len(recordings') = Cardinality(RecordingFilesOf(folderEntries))
          /\ NewestFirst(recordings')
          /\ recordingsLoading' = FALSE
     /\ lastOp' = "refreshRecordings failed" =>
          /\ recordings' = <<>>
          /\ recordingsError' # NullMsg
          /\ recordingsLoading' = FALSE]_vars

(***************************************************************************)
(* C33.  saveRecording and readRecordingFile reject with the NOT_FOUND     *)
(* condition when no folder handle is set and with PERMISSION_DENIED when  *)
(* the permission is not granted, and in both cases make no call on the    *)
(* folder and leave its entries alone; a readRecordingFile whose file is   *)
(* gone from the folder when the platform answers rejects with the         *)
(* NOT_FOUND condition.                                                    *)
(***************************************************************************)
RejectedUntouched(condition) ==
  /\ lastArg' = <<"FolderAccessError", condition>>
  /\ calls' = {}
  /\ UNCHANGED <<folderEntries, folderPending>>

C33_FolderAccessConditions ==
  [][/\ (lastOp' \in {"readRecordingFile", "saveRecording"}
         /\ folderHandle = "none") => RejectedUntouched("NOT_FOUND")
     /\ (lastOp' \in {"readRecordingFile", "saveRecording"}
         /\ folderHandle # "none" /\ folderPermissionState # "granted") =>
          RejectedUntouched("PERMISSION_DENIED")
     /\ (lastOp' = "readRecordingFile settled"
         /\ ~HasEntry(folderEntries, AccessedName)) =>
          lastArg' = <<"FolderAccessError", "NOT_FOUND">>]_vars

(***************************************************************************)
(* C34.  A get never rejects: whenever the database does not open, the     *)
(* store does not exist or the request fails, it resolves with undefined.  *)
(* A set or a delete that meets one of these failures rejects.             *)
(***************************************************************************)
C34_ReadsFailSoftWritesPropagate ==
  [][/\ lastOp' = "get" => lastArg'[2] = "resolved"
     /\ (lastOp' = "get"
         /\ (dbPromise' = "rejected" \/ ~StoreExists(kvStore, lastArg'[1]))) =>
          lastArg'[3] = "undefined"
     /\ (lastOp' \in {"set", "delete"}
         /\ (dbPromise' = "rejected" \/ ~StoreExists(kvStore, lastArg'[1]))) =>
          /\ lastArg'[2] = "rejected"
          /\ UNCHANGED kvStore]_vars

(***************************************************************************)
(* C35.  A requestPermission called while hasEnabledInput holds calls the  *)
(* platform's getUserMedia: also when the camera is enabled and selected   *)
(* while the microphone flag is on with no microphone selected.            *)
(***************************************************************************)
C35_EnabledInputIsProbed ==
  [][(lastOp' = "requestPermission" /\ hasEnabledInput) =>
       "getUserMedia" \in calls']_vars

(***************************************************************************)
(* C36.  A recorder is told to stop only while the status is recording and *)
(* it has not been told before; saveRecording is called only in the step   *)
(* that handles the stop event of a recorder told to stop, after which     *)
(* that recorder is no longer waiting; and a recorder never goes back to   *)
(* recording.  So each session stops its recorder and saves at most once,  *)
(* whatever the order of stopRecording calls and ended screen tracks.      *)
(***************************************************************************)
C36_StopAndSaveAtMostOnce ==
  [][/\ "MediaRecorder.stop" \in calls' =>
          /\ recordingStatus = "recording"
          /\ mediaRecorder.state = "recording"
          /\ mediaRecorder'.state = "stopRequested"
     /\ "saveRecording" \in calls' =>
          /\ lastOp' = "recorder stop"
          /\ mediaRecorder.state = "stopRequested"
          /\ mediaRecorder'.state # "stopRequested"
     /\ (mediaRecorder.state \in {"stopRequested", "inactive"}
         /\ mediaRecorder'.state = "recording") =>
          "MediaRecorder" \in calls'
     /\ (lastOp' \in {"stopRecording", "track ended"}
         /\ recordingStatus # "recording") => UNCHANGED sessionVars]_vars

\* a second stop trigger arrived while the first stopRecording awaited the
\* write, and did nothing
C36_StopIgnoredWhileSaving ==
  /\ lastOp \in {"stopRecording", "track ended"}
  /\ calls = {}
  /\ recordingStatus = "stopping"
  /\ pc = "awaitSave"

(***************************************************************************)
(* C37.  A live microphone track attached to the registry is enabled       *)
(* exactly when microphoneEnabled is true, and a live camera track exactly *)
(* when cameraEnabled is true, in every state: after the tracks were       *)
(* attached, after a toggle, after the validation of an enumeration and    *)
(* after the stored toggle preferences were loaded.                        *)
(***************************************************************************)
TrackFollows(track, flag) ==
  (track # NullTrack /\ IsLive(streams, track)) =>
    TrackEnabled(streams, track) = flag

C37_AttachedTracksFollowTheFlags ==
  /\ TrackFollows(activeMicrophoneTrack, microphoneEnabled)
  /\ TrackFollows(activeCameraTrack, cameraEnabled)

(***************************************************************************)
(* C38.  A start that intended microphone capture when startRecording was  *)
(* called, and that ends with status recording, records an audio track:    *)
(* the composed stream holds one, whatever happened to the selection and   *)
(* to the flags while the start was waiting.                               *)
(***************************************************************************)
HasAudioTrack(rs) == \E t \in rs.tracks : t[2] = "audio"

C38_IntendedMicrophoneIsRecorded ==
  [][(/\ pc \in {"awaitDisplayMedia", "awaitUserMedia"}
      /\ intent.captureMicrophone
      /\ recordingStatus' = "recording")
     => HasAudioTrack(recordingStream')]_vars

(***************************************************************************)
(* C39.  In every state of the registry an enabled camera has a selected   *)
(* device: cameraEnabled implies that selectedCameraKey is not null.       *)
(***************************************************************************)
C39_EnabledCameraIsSelected == cameraEnabled => selectedCameraKey # NullKey

(***************************************************************************)
(* C40.  While the status is starting or recording the folder is ready: a  *)
(* folder handle is set and its permission is granted, so that no          *)
(* recording is started that could not be written at its stop.             *)
(***************************************************************************)
C40_RecordingOnlyWithReadyFolder ==
  recordingStatus \in {"starting", "recording"} => FolderReady

====
